---- MODULE Spec2Model ----
(***************************************************************************)
(* Session manager (src/main.py): the credential pool of SecureConfig, the *)
(* retry wrapper AdvancedTelegramClient (connect, disconnect,              *)
(* safe_execute), the concurrent bulk deletion and the main menu loop.     *)
(***************************************************************************)
EXTENDS Integers, Sequences, FiniteSets, Bags, TLC

VARIABLES
    API_POOL,       \* SecureConfig.API_POOL: the "limits" of each credential
    now,            \* the wall clock, datetime.now(timezone.utc), in seconds
    acq,            \* the last get_available_api call: what it saw and did
    client,         \* AdvancedTelegramClient.client: "None" or "TelegramClient"
    connected,      \* AdvancedTelegramClient._connected
    me,             \* AdvancedTelegramClient._me: "None" or "User"
    connOpen,       \* the TelegramClient object of self.client holds an open connection
    leaked,         \* TelegramClient objects dropped while their connection was open
    session,        \* the StringSession the TelegramClient was built with
    files,          \* the session folder: phone -> content of its session file
    registry,       \* the sessions table: phone -> row
    pc,             \* where the coroutine using the client is
    caller,         \* who called connect: "api" or "safe_execute"
    attempt,        \* the loop variable of the retry loop in progress
    request,        \* the kind of the request safe_execute was handed
    ret,            \* how the last call on the client ended
    tr,             \* what the retry loop in progress (or the last call) did
    calls,          \* calls made on the client so far
    tasks,          \* the coroutines of a gather over safe_execute: a bag of positions
    menu,           \* main: "loop" (at the prompt), "exited" or "crashed"
    ran,            \* the last handler main ran and how it ended
    ops,            \* handlers main has run
    config,         \* SecureConfig: the retry settings read at startup
    table,          \* sessions.db as startup finds and leaves it: columns, rows by column
    boot,           \* where SecureConfig._migrate_database is
    writers,        \* coroutines about to write the registry: position, time stamp, end
    loops,          \* per process, the coroutine its event loop is running (0: none)
    sqlite          \* sessions.db: who holds the write lock, the commits in order,
                    \* the connections this process has open

poolVars == <<API_POOL, now, acq>>

clientVars == <<client, connected, me, connOpen, leaked, session,
                pc, caller, attempt, request, ret, tr, calls>>

gatherVars == <<tasks>>

menuVars == <<menu, ran, ops>>

startupVars == <<config, table, boot>>

dbVars == <<writers, loops, sqlite>>

vars == <<API_POOL, now, acq, client, connected, me, connOpen, leaked, session,
          files, registry, pc, caller, attempt, request, ret, tr, calls, tasks,
          menu, ran, ops, config, table, boot, writers, loops, sqlite>>

----------------------------------------------------------------------------
(* Program constants *)

MAX_RETRIES == 5
RETRY_DELAY == 5
CONCURRENT_CONNECTIONS == 4

\* the settings when the environment sets neither variable
\* line 86: the default of BATCH_SIZE
BATCH_SIZE == 100

DefaultConfig ==
    [MAX_RETRIES |-> MAX_RETRIES, RETRY_DELAY |-> RETRY_DELAY,
     BATCH_SIZE |-> BATCH_SIZE]

\* the columns every sessions table has had: the migration list of lines
\* 109-114 names the four that were added later
BaseColumns == {"phone", "path", "created_at", "last_used"}

\* lines 109-114: column name and the value ADD COLUMN gives existing rows
Migrations ==
    <<[col |-> "metadata", default |-> "NULL"],
      [col |-> "session_hash", default |-> "NULL"],
      [col |-> "status", default |-> "active"],
      [col |-> "notes", default |-> "NULL"]>>

MigratedColumns == {Migrations[i].col : i \in 1..Len(Migrations)}

\* the columns of CREATE TABLE at lines 124-135
AllColumns == BaseColumns \cup MigratedColumns

NoTable == [exists |-> FALSE, columns |-> {}, rows |-> <<>>]

\* lines 121-139: _create_database when there is no file
CreatedTable == [exists |-> TRUE, columns |-> AllColumns, rows |-> <<>>]

\* ALTER TABLE that rewrites every row with the default in every column
AddColumnResettingRows(t, c, d) ==
    [exists |-> t.exists,
     columns |-> t.columns \cup {c},
     rows |-> [p \in DOMAIN t.rows |-> [k \in t.columns \cup {c} |-> d]]]

\* ALTER TABLE sessions ADD COLUMN c ... DEFAULT d: rows keep their values
\* and read d in the new column
AddColumn(t, c, d) ==
    [exists |-> t.exists,
     columns |-> t.columns \cup {c},
     rows |-> [p \in DOMAIN t.rows |->
                 [k \in t.columns \cup {c} |-> IF k = c THEN d ELSE t.rows[p][k]]]]

\* startup over: SecureConfig() at line 152 returned
Booted == [stage |-> "done", seen |-> {}, i |-> 0, starts |-> 1, before |-> NoTable]

\* the process after startup with settings c and a registry it created
StartedWith(c) ==
    /\ config = c
    /\ table = CreatedTable
    /\ boot = Booted
UsageCeiling == 100
Cooldown == 3600
NoTime == -1

(* Bounds of the model *)

MaxClock == 7201

\* calls made on one client object in one behaviour
MaxCalls == 3

\* the wait a FloodWaitError may carry (e.seconds): short, and on both sides
\* of the cap of line 256
FloodSeconds == {5, 3600, 3601}

\* what safe_execute may be handed: a request object (sent with
\* self.client(request)), a coroutine function such as client.send_message, or a
\* request class (callable: line 253 awaits the object the call builds)
RequestKinds == {"request", "coroutine_fn", "request_class"}

TickSteps == {Cooldown, Cooldown + 1}

----------------------------------------------------------------------------
(* SecureConfig: the credential pool *)

NPool == 2

FreshPool == [i \in 1..NPool |-> [count |-> 0, last_used |-> NoTime]]

\* api["limits"]["last_used"] and (now - last_used).total_seconds() > 3600
CooledDown(api, t) == api.last_used /= NoTime /\ t - api.last_used > Cooldown

\* the condition of line 143 without its second disjunct
AvailableBelowCeilingOnly(api, t) == api.count < UsageCeiling

\* the condition of line 143
Available(api, t) == api.count < UsageCeiling \/ CooledDown(api, t)

\* lines 144-147, without the reset of line 145
UseApiNoReset(api, t) == [count |-> api.count + 1, last_used |-> t]

\* lines 144-147: reset on cooldown, stamp, increment
UseApi(api, t) ==
    [count |-> (IF CooledDown(api, t) THEN 0 ELSE api.count) + 1,
     last_used |-> t]

\* the scan of line 142 taken from the end of the pool
LastAvailable(pool, t) ==
    IF \E i \in 1..NPool : Available(pool[i], t)
    THEN CHOOSE i \in 1..NPool :
            /\ Available(pool[i], t)
            /\ \A j \in (i + 1)..NPool : ~Available(pool[j], t)
    ELSE 0

\* the index of the credential the scan of line 142 stops at, 0 when it
\* runs off the end (line 150 raises)
FirstAvailable(pool, t) ==
    IF \E i \in 1..NPool : Available(pool[i], t)
    THEN CHOOSE i \in 1..NPool :
            /\ Available(pool[i], t)
            /\ \A j \in 1..(i - 1) : ~Available(pool[j], t)
    ELSE 0

\* get_available_api as a function of the pool and the clock: the index
\* returned (0: the exception of line 150) and the pool afterwards
get_available_api(pool, t) ==
    LET i == FirstAvailable(pool, t) IN
    IF i = 0
    THEN [idx |-> 0, pool |-> pool]
    ELSE [idx |-> i, pool |-> [pool EXCEPT ![i] = UseApi(pool[i], t)]]

NoAcq == [idx |-> -1, pre |-> FreshPool, at |-> 0]

----------------------------------------------------------------------------
(* The sessions table and the session file of one phone *)

\* the session files are visited in this order
PhoneOrder == <<"+10000000001", "+10000000002">>

Phones == {PhoneOrder[i] : i \in 1..Len(PhoneOrder)}

\* self.phone of the client object
ThePhone == "+10000000001"

NoHash == [phone |-> "", at |-> NoTime]

NoRow == [exists |-> FALSE, last_used |-> NoTime, session_hash |-> NoHash,
          status |-> "active", notes |-> "NULL"]

\* a row as create_session inserts it (lines 359-365) at time t: the hash is
\* sha256 of the phone alone, notes is not among the columns given
CreatedRow(p, t) ==
    [exists |-> TRUE, last_used |-> t,
     session_hash |-> [phone |-> p, at |-> NoTime], status |-> "active",
     notes |-> "NULL"]

\* _generate_session_hash: sha256 of the phone and the current time
SessionHash(p, t) == [phone |-> p, at |-> t]

\* the UPDATE of lines 215-218 without its session_hash column
UpdateLastUsedOnly(reg, p, t) ==
    [reg EXCEPT ![p] = IF @.exists THEN [@ EXCEPT !.last_used = t] ELSE @]

\* the UPDATE of lines 215-218: it changes the row of the phone, if there is one
UpdateLastUsed(reg, p, t) ==
    [reg EXCEPT ![p] =
        IF @.exists
        THEN [@ EXCEPT !.last_used = t, !.session_hash = SessionHash(p, t)]
        ELSE @]

----------------------------------------------------------------------------
(* AdvancedTelegramClient: one client object and the coroutine calling it *)

\* the record kept of a call: the answers its attempts got, its sleeps, its
\* registry and file writes, the registry it started from and the call before it
NewTrace == [conn |-> <<>>, connSleeps |-> <<>>, exec |-> <<>>,
             execSleeps |-> <<>>, floods |-> <<>>, dbUpdates |-> 0, fileWrites |-> 0,
             reg0 |-> [p \in Phones |-> NoRow], prev |-> "__init__"]

StartTrace(reg, last) == [NewTrace EXCEPT !.reg0 = reg, !.prev = last.fn]

Running(fn) == [fn |-> fn, kind |-> "running", val |-> "None"]
Returned(fn, v) == [fn |-> fn, kind |-> "return", val |-> v]
Raised(fn, e) == [fn |-> fn, kind |-> "raise", val |-> e]

\* the processes that may have sessions.db open: this one and a second
\* instance of the program
Procs == {1, 2}

\* no coroutine is about to write the registry
NoWriters ==
    /\ writers = <<>>
    /\ loops = [q \in Procs |-> 0]
    /\ sqlite = [lock |-> 0, commits |-> <<>>, handles |-> 0, pending |-> {}]

\* main before its first iteration
MenuIdle ==
    /\ menu = "loop"
    /\ ran = [op |-> "none", end |-> "returned", why |-> "none", unearned |-> {},
              changed |-> {}, failed |-> {}, removed |-> {}]
    /\ ops = 0

\* __init__ (lines 165-170)
ClientFresh ==
    /\ client = "None"
    /\ connected = FALSE
    /\ me = "None"
    /\ connOpen = FALSE
    /\ leaked = 0
    /\ session = "None"
    /\ pc = "idle"
    /\ caller = "api"
    /\ attempt = 0
    /\ request = "None"
    /\ ret = Returned("__init__", "None")
    /\ tr = StartTrace(registry, Returned("__init__", "None"))
    /\ calls = 0

\* what lines 183-191 make of the session file: the stored string, or an
\* empty StringSession when there is no file or reading it fails
LoadedSessions(f) ==
    IF f = "absent" THEN {"empty"}
    ELSE IF f = "" THEN {"empty"}
    ELSE {f, "empty"}

\* a backoff that grows by the base delay instead of doubling
BackoffLinear(k) == config.RETRY_DELAY * (k + 1)

\* the sleep of lines 225-226 and 264 after failed attempt k
Backoff(k) == config.RETRY_DELAY * (2 ^ k)

\* where control goes when connect returns v to its caller
\* (line 248: safe_execute returns None when connect returned false)
AfterConnect(who, v) ==
    IF who = "api"
    THEN [pc |-> "idle", ret |-> Returned("connect", IF v THEN "True" ELSE "False")]
    ELSE IF v
         THEN [pc |-> "execute", ret |-> Running("safe_execute")]
         ELSE [pc |-> "idle", ret |-> Returned("safe_execute", "None")]

\* lines 179-203: the entry of connect, for caller who, starting trace t0
ConnectEntry(who, t0) ==
    /\ ~connected
    /\ caller' = who
    /\ \E loaded \in LoadedSessions(files[ThePhone]) :
        LET r == get_available_api(API_POOL, now) IN
        /\ API_POOL' = r.pool
        /\ acq' = [idx |-> r.idx, pre |-> API_POOL, at |-> now]
        /\ IF r.idx = 0
           THEN \* line 193 raises, outside every try of connect and safe_execute
                /\ pc' = "idle"
                /\ ret' = Raised(IF who = "api" THEN "connect" ELSE "safe_execute",
                                 "PoolExhausted")
                /\ UNCHANGED <<client, connOpen, leaked, session>>
           ELSE \* line 194 drops the TelegramClient object held before
                /\ pc' = "connect"
                /\ ret' = Running(IF who = "api" THEN "connect" ELSE "safe_execute")
                /\ client' = "TelegramClient"
                /\ leaked' = leaked + (IF client /= "None" /\ connOpen THEN 1 ELSE 0)
                /\ connOpen' = FALSE
                /\ session' = loaded
    /\ attempt' = 0
    /\ tr' = t0
    /\ UNCHANGED <<now, connected, me, files, registry>>

\* connect() called on the client (lines 179-181: already connected)
CallConnect ==
    /\ pc = "idle"
    /\ calls < MaxCalls
    /\ calls' = calls + 1
    /\ IF connected
       THEN /\ ret' = Returned("connect", "True")
            /\ tr' = StartTrace(registry, ret)
            /\ caller' = "api"
            /\ UNCHANGED <<poolVars, client, connected, me, connOpen, leaked,
                           session, files, registry, pc, attempt>>
       ELSE ConnectEntry("api", StartTrace(registry, ret))
    /\ UNCHANGED request

\* the handler of a failed attempt without the test of line 225: it sleeps
\* after the last attempt too
ConnectFailedSleepsLast(outcome) ==
    LET last == attempt = config.MAX_RETRIES - 1
        after == AfterConnect(caller, FALSE) IN
    /\ tr' = [tr EXCEPT !.conn = Append(@, outcome),
                        !.connSleeps = Append(@, Backoff(attempt))]
    /\ IF last
       THEN /\ pc' = after.pc
            /\ ret' = after.ret
            /\ UNCHANGED attempt
       ELSE /\ attempt' = attempt + 1
            /\ UNCHANGED <<pc, ret>>

\* lines 222-226: the handler of a failed attempt, then the next iteration or
\* lines 227-228
ConnectFailed(outcome) ==
    LET last == attempt = config.MAX_RETRIES - 1
        after == AfterConnect(caller, FALSE) IN
    /\ tr' = [tr EXCEPT !.conn = Append(@, outcome),
                        !.connSleeps = IF last THEN @ ELSE Append(@, Backoff(attempt))]
    /\ IF last
       THEN /\ pc' = after.pc
            /\ ret' = after.ret
            /\ UNCHANGED attempt
       ELSE /\ attempt' = attempt + 1
            /\ UNCHANGED <<pc, ret>>

\* line 208, 209 or 212 raises
ConnectTransient ==
    /\ pc = "connect"
    /\ \E opened \in BOOLEAN : connOpen' = (connOpen \/ opened)
    /\ ConnectFailed("transient")
    /\ UNCHANGED <<poolVars, client, connected, me, leaked, session, files,
                   registry, caller, request, calls>>

\* 'not authorized' handled like a failed attempt: backoff and retry
ConnectNotAuthorizedRetried ==
    /\ pc = "connect"
    /\ connOpen' = TRUE
    /\ ConnectFailed("not_authorized")
    /\ UNCHANGED <<poolVars, client, connected, me, leaked, session, files,
                   registry, caller, request, calls>>

\* lines 209-211: the connection opens and the session is not authorized
ConnectNotAuthorized ==
    /\ pc = "connect"
    /\ connOpen' = TRUE
    /\ tr' = [tr EXCEPT !.conn = Append(@, "not_authorized")]
    /\ pc' = AfterConnect(caller, FALSE).pc
    /\ ret' = AfterConnect(caller, FALSE).ret
    /\ UNCHANGED <<poolVars, client, connected, me, leaked, session, files,
                   registry, caller, attempt, request, calls>>

\* lines 208-218 with the registry block raising, for a session the remote
\* service authorizes (one that holds a secret) (sqlite3.connect, the UPDATE or
\* the commit of db_connection fails: nothing is committed)
ConnectDbFailed ==
    /\ pc = "connect"
    /\ session = "secret"
    /\ connOpen' = TRUE
    /\ me' = "User"
    /\ connected' = TRUE
    /\ ConnectFailed("db_failed")
    /\ UNCHANGED <<poolVars, client, leaked, session, files, registry, caller,
                   request, calls>>

\* lines 208-221: the session holds a secret and the remote service
\* authorizes it; registry updated, returns true
ConnectOk ==
    /\ pc = "connect"
    /\ session = "secret"
    /\ connOpen' = TRUE
    /\ me' = "User"
    /\ connected' = TRUE
    /\ registry' = UpdateLastUsed(registry, ThePhone, now)
    /\ tr' = IF caller = "api"
             THEN [tr EXCEPT !.conn = Append(@, "ok"), !.dbUpdates = @ + 1]
             ELSE [tr EXCEPT !.conn = <<>>, !.connSleeps = <<>>]
                  \* safe_execute goes on to its own loop
    /\ pc' = AfterConnect(caller, TRUE).pc
    /\ ret' = AfterConnect(caller, TRUE).ret
    /\ attempt' = 0
    /\ UNCHANGED <<poolVars, client, leaked, session, files, caller, request, calls>>

\* safe_execute(request) called on the client (lines 246-249)
CallSafeExecute ==
    /\ pc = "idle"
    /\ calls < MaxCalls
    /\ calls' = calls + 1
    /\ \E k \in RequestKinds : request' = k
    /\ IF connected
       THEN /\ pc' = "execute"
            /\ attempt' = 0
            /\ tr' = StartTrace(registry, ret)
            /\ ret' = Running("safe_execute")
            /\ caller' = "api"
            /\ UNCHANGED <<poolVars, client, connected, me, connOpen, leaked,
                           session, files, registry>>
       ELSE ConnectEntry("safe_execute", StartTrace(registry, ret))

\* line 253 or 254 reaches the remote service: the awaited object is a coroutine
\* of the TelegramClient. It does not when self.client is None (line 254 calls
\* None) or when the callable is a request class (line 253 awaits a request
\* object, which is not awaitable): both raise TypeError inside the try.
ReachesRemote ==
    \/ request = "coroutine_fn"
    \/ request = "request" /\ client /= "None"

\* the wait of lines 256-258 without the cap
FloodWaitUncapped(seconds) == seconds

\* the wait of lines 256-258
FloodWait(seconds) == IF seconds < 3600 THEN seconds ELSE 3600

\* the generic handler without the raise of line 263: the last failure falls
\* through to line 265
SafeExecuteStepSwallows(a, outcome, seconds) ==
    IF outcome = "ok"
    THEN [end |-> "result", sleeps |-> <<>>]
    ELSE IF outcome = "flood"
    THEN [end |-> IF a = config.MAX_RETRIES - 1 THEN "None" ELSE "retry",
          sleeps |-> <<FloodWait(seconds)>>]
    ELSE [end |-> IF a = config.MAX_RETRIES - 1 THEN "None" ELSE "retry",
          sleeps |-> IF a = config.MAX_RETRIES - 1 THEN <<>> ELSE <<Backoff(a)>>]

\* one iteration of the loop of safe_execute (lines 250-265), attempt a, when
\* the awaited call ends with outcome ("ok", "flood" carrying seconds, or an
\* error): how the iteration ends and what it sleeps.
\*   "result": line 253/254 returns; "retry": the for loop goes on;
\*   "None": the loop is used up, line 265; "raise": line 263
SafeExecuteStep(a, outcome, seconds) ==
    IF outcome = "ok"
    THEN [end |-> "result", sleeps |-> <<>>]
    ELSE IF outcome = "flood"
    THEN [end |-> IF a = config.MAX_RETRIES - 1 THEN "None" ELSE "retry",
          sleeps |-> <<FloodWait(seconds)>>]
    ELSE [end |-> IF a = config.MAX_RETRIES - 1 THEN "raise" ELSE "retry",
          sleeps |-> IF a = config.MAX_RETRIES - 1 THEN <<>> ELSE <<Backoff(a)>>]

\* the coroutine of safe_execute after an iteration that ended as step says
ExecuteAfter(step, outcome, seconds) ==
    /\ tr' = [tr EXCEPT !.exec = Append(@, outcome),
                        !.execSleeps = @ \o step.sleeps,
                        !.floods = IF outcome = "flood"
                                   THEN Append(@, [signal |-> seconds,
                                                   slept |-> step.sleeps])
                                   ELSE @]
    /\ IF step.end = "retry"
       THEN /\ attempt' = attempt + 1
            /\ UNCHANGED <<pc, ret>>
       ELSE /\ pc' = "idle"
            /\ ret' = IF step.end = "raise"
                      THEN Raised("safe_execute", "error")
                      ELSE Returned("safe_execute", step.end)
            /\ UNCHANGED attempt

\* lines 252-254: the call answers
ExecuteOk ==
    /\ pc = "execute"
    /\ ReachesRemote
    /\ ExecuteAfter(SafeExecuteStep(attempt, "ok", 0), "ok", 0)
    /\ UNCHANGED <<poolVars, client, connected, me, connOpen, leaked, session,
                   files, registry, caller, request, calls>>

\* lines 255-258: FloodWaitError, sleep, next iteration of the for loop
ExecuteFlood ==
    /\ pc = "execute"
    /\ ReachesRemote
    /\ \E s \in FloodSeconds :
        ExecuteAfter(SafeExecuteStep(attempt, "flood", s), "flood", s)
    /\ UNCHANGED <<poolVars, client, connected, me, connOpen, leaked, session,
                   files, registry, caller, request, calls>>

\* lines 259-264: any other exception: raise on the last attempt, else back off
ExecuteError ==
    /\ pc = "execute"
    /\ LET o == IF ReachesRemote THEN "error" ELSE "type_error" IN
        ExecuteAfter(SafeExecuteStep(attempt, o, 0), o, 0)
    /\ UNCHANGED <<poolVars, client, connected, me, connOpen, leaked, session,
                   files, registry, caller, request, calls>>

\* how the try block of disconnect (lines 232-240) may end
DisconnectOutcomes == {"ok", "open_failed", "write_failed", "chmod_failed", "close_failed"}

\* the session file after the try block: open(path, 'w') truncates it
FileAfterDisconnect(f, outcome) ==
    IF outcome = "open_failed" THEN f
    ELSE IF outcome = "write_failed" THEN ""
    ELSE "secret"

\* line 238 is the last statement but two of the try block: it runs only when
\* nothing before it raised
ConnectedAfterDisconnect(c, outcome) == IF outcome = "ok" THEN FALSE ELSE c

\* self.client after a disconnect whose try block was entered or not and
\* ended with outcome, had line 244 been written inside the try block
ClientInsideTry(c, entered, outcome) ==
    IF entered /\ outcome /= "ok" THEN c ELSE "None"

\* self.client after disconnect: line 244 runs on every path
ClientAfterDisconnect(c, entered, outcome) == "None"

\* disconnect() called on the client (lines 230-244)
CallDisconnect ==
    /\ pc = "idle"
    /\ calls < MaxCalls
    /\ calls' = calls + 1
    /\ IF client /= "None" /\ connected
       THEN \E o \in DisconnectOutcomes :
            /\ files' = [files EXCEPT ![ThePhone] = FileAfterDisconnect(@, o)]
            /\ connected' = ConnectedAfterDisconnect(connected, o)
            /\ client' = ClientAfterDisconnect(client, TRUE, o)
            /\ connOpen' = (connOpen /\ client' /= "None")
            /\ leaked' = leaked + (IF connOpen /\ client' = "None" /\ o /= "ok" THEN 1 ELSE 0)
            /\ tr' = [StartTrace(registry, ret) EXCEPT
                         !.fileWrites = IF o = "open_failed" THEN 0 ELSE 1]
       ELSE /\ client' = ClientAfterDisconnect(client, FALSE, "ok")
            /\ connOpen' = (connOpen /\ client' /= "None")
            /\ leaked' = leaked + (IF client /= "None" /\ connOpen THEN 1 ELSE 0)
            /\ tr' = StartTrace(registry, ret)
            /\ UNCHANGED <<files, connected>>
    /\ ret' = Returned("disconnect", "None")
    /\ UNCHANGED <<poolVars, me, session, registry, pc, caller, attempt, request>>

----------------------------------------------------------------------------
(* The credential pool alone: get_available_api calls and clock advances *)

\* one call of get_available_api by any caller
Acquire ==
    /\ LET r == get_available_api(API_POOL, now) IN
        /\ API_POOL' = r.pool
        /\ acq' = [idx |-> r.idx, pre |-> API_POOL, at |-> now]
    /\ UNCHANGED now
    /\ UNCHANGED <<clientVars, files, registry, gatherVars, menuVars, startupVars, dbVars>>

\* the wall clock advances
Tick ==
    /\ \E d \in TickSteps :
        /\ now + d <= MaxClock
        /\ now' = now + d
    /\ UNCHANGED <<API_POOL, acq>>
    /\ UNCHANGED <<clientVars, files, registry, gatherVars, menuVars, startupVars, dbVars>>

PoolInit ==
    /\ API_POOL = FreshPool
    /\ now = 0
    /\ acq = NoAcq
    /\ files = [p \in Phones |-> "absent"]
    /\ registry = [p \in Phones |-> NoRow]
    /\ ClientFresh
    /\ tasks = EmptyBag
    /\ MenuIdle
    /\ NoWriters
    /\ StartedWith(DefaultConfig)

PoolNext == Acquire \/ Tick

SpecPool == PoolInit /\ [][PoolNext]_vars

----------------------------------------------------------------------------
(* Startup: SecureConfig._migrate_database over a registry file of any      *)
(* earlier version, and the process started again                            *)

\* rows an earlier run may have left, in the columns the table then had
RowKinds == {"new", "used"}

OldValue(p, c, kind) ==
    IF c = "phone" THEN p
    ELSE IF c = "path" THEN "session file"
    ELSE IF c = "created_at" THEN "t0"
    ELSE IF c = "last_used" THEN (IF kind = "used" THEN "t1" ELSE "NULL")
    ELSE IF c = "metadata" THEN "{}"
    ELSE IF c = "session_hash" THEN "hash"
    ELSE IF c = "status" THEN (IF kind = "used" THEN "inactive" ELSE "active")
    ELSE (IF kind = "used" THEN "a note" ELSE "NULL")

OldTables ==
    {[exists |-> TRUE,
      columns |-> BaseColumns \cup added,
      rows |-> [p \in ps |-> [c \in BaseColumns \cup added |-> OldValue(p, c, kind[p])]]] :
        added \in SUBSET MigratedColumns, ps \in SUBSET Phones,
        kind \in [Phones -> RowKinds]}

\* lines 100-103: no file, so the table is created with every column
MigrateCreate ==
    /\ boot.stage = "start"
    /\ ~table.exists
    /\ table' = CreatedTable
    /\ boot' = [boot EXCEPT !.stage = "done"]
    /\ UNCHANGED <<poolVars, clientVars, files, registry, gatherVars, menuVars, dbVars, config>>

\* lines 104-108: the column names of the table are read once
MigrateRead ==
    /\ boot.stage = "start"
    /\ table.exists
    /\ boot' = [boot EXCEPT !.stage = "loop", !.seen = table.columns, !.i = 1]
    /\ UNCHANGED <<poolVars, clientVars, files, registry, gatherVars, menuVars, dbVars, config, table>>

\* lines 115-118: one iteration of the loop over the migration list
MigrateColumn ==
    /\ boot.stage = "loop"
    /\ boot.i <= Len(Migrations)
    /\ table' = IF Migrations[boot.i].col \in boot.seen
                THEN table
                ELSE AddColumn(table, Migrations[boot.i].col, Migrations[boot.i].default)
    /\ boot' = [boot EXCEPT !.i = @ + 1]
    /\ UNCHANGED <<poolVars, clientVars, files, registry, gatherVars, menuVars, dbVars, config>>

\* line 117 raises (the database is locked past the busy timeout, the disk
\* is full): the columns added so far stay, SecureConfig() raises
MigrateRaises ==
    /\ boot.stage = "loop"
    /\ boot.i <= Len(Migrations)
    /\ Migrations[boot.i].col \notin boot.seen
    /\ boot' = [boot EXCEPT !.stage = "raised"]
    /\ UNCHANGED <<poolVars, clientVars, files, registry, gatherVars, menuVars, dbVars, config, table>>

\* line 119: the loop is over
MigrateCommit ==
    /\ boot.stage = "loop"
    /\ boot.i > Len(Migrations)
    /\ boot' = [boot EXCEPT !.stage = "done"]
    /\ UNCHANGED <<poolVars, clientVars, files, registry, gatherVars, menuVars, dbVars, config, table>>

\* the program is started again
MaxStarts == 2

Restart ==
    /\ boot.stage \in {"done", "raised"}
    /\ boot.starts < MaxStarts
    /\ boot' = [stage |-> "start", seen |-> {}, i |-> 0, starts |-> boot.starts + 1,
                before |-> table]
    /\ UNCHANGED <<poolVars, clientVars, files, registry, gatherVars, menuVars, dbVars, config, table>>

MigrateInit ==
    /\ API_POOL = FreshPool
    /\ now = 0
    /\ acq = NoAcq
    /\ files = [p \in Phones |-> "absent"]
    /\ registry = [p \in Phones |-> NoRow]
    /\ ClientFresh
    /\ tasks = EmptyBag
    /\ MenuIdle
    /\ NoWriters
    /\ config = DefaultConfig
    /\ table \in {NoTable} \cup OldTables
    /\ boot = [stage |-> "start", seen |-> {}, i |-> 0, starts |-> 1, before |-> table]

MigrateNext ==
    \/ MigrateCreate
    \/ MigrateRead
    \/ MigrateColumn
    \/ MigrateRaises
    \/ MigrateCommit
    \/ Restart

SpecMigrate == MigrateInit /\ [][MigrateNext]_vars

----------------------------------------------------------------------------
(* One client object under any sequence of connect, safe_execute and        *)
(* disconnect calls                                                          *)

\* pools the process can be in when the client is used: fresh, and one
\* acquisition away from exhaustion
LastSlotPool ==
    <<[count |-> UsageCeiling, last_used |-> 0],
      [count |-> UsageCeiling - 1, last_used |-> 0]>>

\* a client made at time 1 for ThePhone: the pool fresh or one acquisition
\* from exhaustion, the session file absent or written, the row absent or
\* inserted by create_session at time 0
ClientInit ==
    /\ API_POOL \in {FreshPool, LastSlotPool}
    /\ now = 1
    /\ acq = NoAcq
    /\ files \in {[p \in Phones |-> "absent"],
                  [p \in Phones |-> IF p = ThePhone THEN "secret" ELSE "absent"]}
    /\ registry \in {[p \in Phones |-> NoRow],
                     [p \in Phones |-> IF p = ThePhone THEN CreatedRow(p, 0) ELSE NoRow]}
    /\ ClientFresh
    /\ tasks = EmptyBag
    /\ MenuIdle
    /\ NoWriters
    /\ StartedWith(DefaultConfig)

ClientNext ==
    \/ CallConnect /\ UNCHANGED <<gatherVars, menuVars, startupVars, dbVars>>
    \/ ConnectTransient /\ UNCHANGED <<gatherVars, menuVars, startupVars, dbVars>>
    \/ ConnectNotAuthorized /\ UNCHANGED <<gatherVars, menuVars, startupVars, dbVars>>
    \/ ConnectDbFailed /\ UNCHANGED <<gatherVars, menuVars, startupVars, dbVars>>
    \/ ConnectOk /\ UNCHANGED <<gatherVars, menuVars, startupVars, dbVars>>
    \/ CallSafeExecute /\ UNCHANGED <<gatherVars, menuVars, startupVars, dbVars>>
    \/ ExecuteOk /\ UNCHANGED <<gatherVars, menuVars, startupVars, dbVars>>
    \/ ExecuteFlood /\ UNCHANGED <<gatherVars, menuVars, startupVars, dbVars>>
    \/ ExecuteError /\ UNCHANGED <<gatherVars, menuVars, startupVars, dbVars>>
    \/ CallDisconnect /\ UNCHANGED <<gatherVars, menuVars, startupVars, dbVars>>

SpecClient == ClientInit /\ [][ClientNext]_vars

\* values the environment may give MAX_RETRIES and RETRY_DELAY (lines 84-85)
RetryCeilings == {1, 2, 3}

BaseDelays == {5, 2000, 3601}

Configs ==
    [MAX_RETRIES : RetryCeilings, RETRY_DELAY : BaseDelays,
     BATCH_SIZE : {BATCH_SIZE}]

\* the client of ClientInit in a process started with any of these settings
BackoffInit ==
    /\ API_POOL \in {FreshPool, LastSlotPool}
    /\ now = 1
    /\ acq = NoAcq
    /\ files \in {[p \in Phones |-> "absent"],
                  [p \in Phones |-> IF p = ThePhone THEN "secret" ELSE "absent"]}
    /\ registry \in {[p \in Phones |-> NoRow],
                     [p \in Phones |-> IF p = ThePhone THEN CreatedRow(p, 0) ELSE NoRow]}
    /\ ClientFresh
    /\ tasks = EmptyBag
    /\ MenuIdle
    /\ NoWriters
    /\ \E c \in Configs : StartedWith(c)

SpecBackoff == BackoffInit /\ [][ClientNext]_vars

\* one step of the loop of lines 205-226: the awaited calls of an attempt
\* (client.connect, is_user_authorized, get_me, the registry block) return or
\* raise, and asyncio.sleep returns
ConnectStep ==
    /\ ConnectTransient \/ ConnectNotAuthorized \/ ConnectDbFailed \/ ConnectOk
    /\ UNCHANGED <<gatherVars, menuVars, startupVars, dbVars>>

\* the client with every awaited call of connect answered in the end
SpecClientLive == SpecClient /\ WF_vars(ConnectStep)

----------------------------------------------------------------------------
(* The handlers of the menu, each run to its end: what it leaves in the      *)
(* pool, the registry and the session folder, and whether it returns or an   *)
(* exception leaves it                                                        *)

\* how a connect call on a new client object may end: authorized ("ok"),
\* false with _connected false (not authorized, or every attempt failed), or
\* false returned after the registry block of an authorized attempt raised
\* and no later attempt succeeded ("false_connected": line 213 ran)
ConnectEnds == {"ok", "false", "false_connected"}

\* a handler, or a part of one, that ended without an exception leaving it
Fine(w) == [raised |-> FALSE, why |-> "none", w |-> w]

\* an exception that nothing in the handler catches
Escapes(why, w) == [raised |-> TRUE, why |-> why, w |-> w]

\* lines 193-228 for a new client of phone p at time t, line 193 having
\* yielded r and the attempts ending as o says: raised (line 193), the value
\* returned, _connected afterwards, and the world afterwards
ConnectWith(w, p, t, o, r) ==
    IF r.idx = 0
    THEN [raised |-> TRUE, value |-> FALSE, connected |-> FALSE, w |-> w]
    ELSE [raised |-> FALSE,
          value |-> (o = "ok"),
          connected |-> (o \in {"ok", "false_connected"}),
          w |-> [w EXCEPT !.pool = r.pool,
                          !.reg = IF o = "ok" THEN UpdateLastUsed(@, p, t) ELSE @,
                          !.authed = IF o = "ok" THEN @ \cup {p} ELSE @]]

\* connect() of a new client of phone p at time t in the world
\* w = [pool, reg, files]
connect(w, p, t, o) == ConnectWith(w, p, t, o, get_available_api(w.pool, t))

\* the session files list_sessions globs (line 382)
SessionFiles(fl) == {p \in Phones : fl[p] /= "absent"}

\* db_sessions of line 390: the rows with the status asked for
RowsWithStatus(reg, status) == {p \in Phones : reg[p].exists /\ reg[p].status = status}

\* the rows of lines 405-410 and 416-420
ProbedRow(p, t, verified) ==
    IF verified
    THEN [exists |-> TRUE, last_used |-> t, session_hash |-> SessionHash(p, t),
          status |-> "active", notes |-> "NULL"]
    ELSE [exists |-> TRUE, last_used |-> NoTime,
          session_hash |-> [phone |-> p, at |-> NoTime],
          status |-> "inactive", notes |-> "NULL"]

\* INSERT OR IGNORE: no effect when the phone has a row
InsertOrIgnore(reg, p, row) == IF reg[p].exists THEN reg ELSE [reg EXCEPT ![p] = row]

\* the ends a connect may have with session file content f: the remote
\* service authorizes only a session that holds a secret
ConnectEndsFor(f) == IF f = "secret" THEN ConnectEnds ELSE {"false"}

\* the ends of a write of the session string that leave different files
WriteEnds == {"ok", "open_failed", "write_failed"}

\* the ends of the disconnect of a client whose _connected is true that leave
\* different session files: the file held the secret before, so a failing
\* open leaves what a complete write leaves
ExitEnds == {"ok", "write_failed"}

\* the ends considered for the connects of a client used as a context
\* manager: a registry block raising inside connect is followed in the
\* client specification, not here
ContextEndsFor(f) == ConnectEndsFor(f) \ {"false_connected"}

\* what a client used as a context manager on a session file with content f
\* may meet: the end of the connect of __aenter__, of the connect made in the
\* body (a no-op returning True when the first left _connected true) and of
\* the disconnect of __aexit__ (which writes only when _connected is true)
ProbeEnvs(f) ==
    {e \in [first : ContextEndsFor(f), second : ContextEndsFor(f), exit : ExitEnds] :
        /\ e.first /= "false" => e.second = e.first
        /\ (e.first = "false" /\ e.second = "false") => e.exit = "ok"}

\* __aexit__ after the body's connect ended as c2: disconnect writes the
\* session file when _connected is true
SessionExit(c2, p, e) ==
    [raised |-> IF c2.raised THEN "body" ELSE "no",
     value |-> c2.value,
     w |-> [c2.w EXCEPT
              !.files = IF c2.connected
                        THEN [@ EXCEPT ![p] = FileAfterDisconnect(@, e.exit)]
                        ELSE @]]

\* the body's connect after __aenter__'s connect ended as c1: line 180
\* returns True at once when _connected is true
SessionBody(c1, p, t, e) ==
    IF c1.raised
    THEN [raised |-> "enter", value |-> FALSE, w |-> c1.w]
    ELSE SessionExit(IF c1.connected
                     THEN [raised |-> FALSE, value |-> TRUE, connected |-> TRUE,
                           w |-> c1.w]
                     ELSE connect(c1.w, p, t, e.second),
                     p, e)

\* async with AdvancedTelegramClient(...) as client: await client.connect()
\* (lines 395-396, 932-934): whether line 193 raised in __aenter__ or in the
\* body, what the body's connect returned, and the world after __aexit__
Session(w, p, t, e) == SessionBody(connect(w, p, t, e.first), p, t, e)

\* lines 397-421 after the client context ended as s
ProbeRow(s, p, t) ==
    IF s.raised /= "no" THEN Escapes("pool_exhausted", s.w)
    ELSE Fine([s.w EXCEPT !.reg = InsertOrIgnore(@, p, ProbedRow(p, t, s.value))])

\* lines 395-421 for one session file without a row in db_sessions
Probe(w, p, t, e) == ProbeRow(Session(w, p, t, e), p, t)

\* the loop of line 392 over the session files from position i on, r being
\* how the files before ended
RECURSIVE ProbeFrom(_, _, _, _, _)
ProbeFrom(r, i, todo, t, es) ==
    IF r.raised \/ i > Len(PhoneOrder) THEN r
    ELSE IF PhoneOrder[i] \notin todo THEN ProbeFrom(r, i + 1, todo, t, es)
    ELSE ProbeFrom(Probe(r.w, PhoneOrder[i], t, es[PhoneOrder[i]]),
                   i + 1, todo, t, es)

\* the session files list_sessions probes: those without a row of the status
\* asked for (line 394)
Unlisted(w, status) == SessionFiles(w.files) \ RowsWithStatus(w.reg, status)

\* lines 423-445 after the probes ended as r
Listed(r, render) ==
    IF r.raised
    THEN [raised |-> TRUE, why |-> r.why, none |-> FALSE, w |-> r.w]
    ELSE [raised |-> render = "error",
          why |-> IF render = "error" THEN "render" ELSE "none",
          none |-> FALSE, w |-> r.w]

\* list_sessions(status_filter) at time t, meeting e = [db, probes, render]:
\* whether an exception left it, whether it returned None (no session file),
\* and the world after
list_sessions(w, status, t, e) ==
    IF SessionFiles(w.files) = {}
    THEN [raised |-> FALSE, why |-> "none", none |-> TRUE, w |-> w]
    ELSE IF e.db = "error"
    THEN [raised |-> TRUE, why |-> "registry", none |-> FALSE, w |-> w]
    ELSE Listed(ProbeFrom(Fine(w), 1, Unlisted(w, status), t, e.probes), e.render)

\* what one client context per session file in s may meet in world w
SessionEnvs(w, s) ==
    {es \in [s -> UNION {ProbeEnvs(f) : f \in {"", "secret"}}] :
        \A p \in s : es[p] \in ProbeEnvs(w.files[p])}

\* what one list_sessions call may meet in world w: a failing SELECT (line
\* 389), the ends of the probes, and, when every listed file has its row, a
\* failing table (lines 431-444)
ListEnvs(w) ==
    IF SessionFiles(w.files) = {}
    THEN {[db |-> "ok", probes |-> <<>>, render |-> "ok"]}
    ELSE {[db |-> "error", probes |-> <<>>, render |-> "ok"]}
         \cup {e \in [db : {"ok"}, probes : SessionEnvs(w, Unlisted(w, "active")),
                      render : {"ok", "error"}] :
                  e.render = "error" => Unlisted(w, "active") = {}}

\* lines 305-378 of create_session, line 304 having yielded r
CreateWith(w, t, e, r) ==
    IF r.idx = 0 THEN Escapes("pool_exhausted", w)
    ELSE IF e.enter = "error" THEN Escapes("context", [w EXCEPT !.pool = r.pool])
    ELSE IF e.login /= "signed_in" THEN Fine([w EXCEPT !.pool = r.pool])
    ELSE IF e.write /= "ok" \/ e.db = "error"
    THEN Fine([w EXCEPT !.pool = r.pool,
                        !.authed = @ \cup {e.phone},
                        !.files[e.phone] = FileAfterDisconnect(@, e.write)])
    ELSE Fine([w EXCEPT !.pool = r.pool,
                        !.authed = @ \cup {e.phone},
                        !.files[e.phone] = FileAfterDisconnect(@, e.write),
                        !.reg[e.phone] = CreatedRow(e.phone, t)])

\* create_session (lines 287-378) at time t, meeting e: the phone typed (or
\* q), the answer to the overwrite question, the entry of the TelegramClient
\* context (line 306), the end of the sign-in dialogue, the write of the
\* session file (lines 355-357) and the registry insert (lines 358-365)
create_session(w, t, e) ==
    IF e.phone = "q" THEN Fine(w)
    ELSE IF w.files[e.phone] /= "absent" /\ ~e.overwrite THEN Fine(w)
    ELSE CreateWith(w, t, e, get_available_api(w.pool, t))

\* what one create_session call may meet
CreateEnvs ==
    {e \in [phone : {"q"} \cup Phones, overwrite : BOOLEAN, enter : {"ok", "error"},
            login : {"signed_in", "failed"}, write : WriteEnds, db : {"ok", "error"}] :
        /\ e.phone = "q" => (e.overwrite /\ e.enter = "ok")
        /\ (e.phone = "q" \/ e.enter = "error") => e.login = "failed"
        /\ e.login = "failed" => e.write = "ok"
        /\ (e.login = "failed" \/ e.write /= "ok") => e.db = "ok"}

\* lines 460-467 after connect ended as c
Selected(w, c) ==
    IF c.raised
    THEN [raised |-> TRUE, why |-> "pool_exhausted", client |-> FALSE, w |-> w]
    ELSE [raised |-> FALSE, why |-> "none", client |-> c.value, w |-> c.w]

\* the part of select_and_login after list_sessions returned sessions (lines
\* 451-467): the operator picks q, something invalid, or one of the sessions
\* listed, and connect ends as o says
select_and_login(w, choice, t, o) ==
    IF choice \notin Phones
    THEN [raised |-> FALSE, why |-> "none", client |-> FALSE, w |-> w]
    ELSE Selected(w, connect(w, choice, t, o))

\* cleanup_sessions (lines 885-922): the session files without an active row
Orphaned(w) == SessionFiles(w.files) \ RowsWithStatus(w.reg, "active")

\* the loop of line 917 over the orphaned files, os.remove failing at failAt
RECURSIVE RemoveFrom(_, _, _, _)
RemoveFrom(w, i, todo, failAt) ==
    IF i > Len(PhoneOrder) THEN Fine(w)
    ELSE IF PhoneOrder[i] \notin todo THEN RemoveFrom(w, i + 1, todo, failAt)
    ELSE IF PhoneOrder[i] = failAt THEN Escapes("file", w)
    ELSE RemoveFrom([w EXCEPT !.files[PhoneOrder[i]] = "absent"], i + 1, todo, failAt)

\* cleanup_sessions meeting e: the SELECT of line 894, os.path.getsize of
\* line 906, the Progress context of line 915, the answer of line 912 and
\* the file at which os.remove fails (or none)
cleanup_sessions(w, e) ==
    IF SessionFiles(w.files) = {} THEN Fine(w)
    ELSE IF e.db = "error" THEN Escapes("registry", w)
    ELSE IF Orphaned(w) = {} THEN Fine(w)
    ELSE IF e.getsize = "error" THEN Escapes("file", w)
    ELSE IF ~e.confirm THEN Fine(w)
    ELSE IF e.progress = "error" THEN Escapes("context", w)
    ELSE RemoveFrom(w, 1, Orphaned(w), e.failAt)

\* what one cleanup_sessions call may meet in world w
CleanupEnvs(w) ==
    {e \in [db : {"ok", "error"}, getsize : {"ok", "error"}, confirm : BOOLEAN,
            progress : {"ok", "error"}, failAt : {"none"} \cup Orphaned(w)] :
        /\ e.db = "error" => e.getsize = "ok"
        /\ (e.db = "error" \/ e.getsize = "error") => ~e.confirm
        /\ ~e.confirm => e.progress = "ok"
        /\ (~e.confirm \/ e.progress = "error") => e.failAt = "none"}

\* check_session (lines 930-941) of phone p after its client context ended
\* as s: an exception of the body's connect is caught and the phone reported
\* as in error, one of __aenter__ is caught by nothing
Checked(acc, p, s) ==
    [raised |-> s.raised = "enter",
     unhealthy |-> IF s.raised = "body" \/ (s.raised = "no" /\ ~s.value)
                   THEN acc.unhealthy \cup {p} ELSE acc.unhealthy,
     w |-> s.w]

\* the checks of the sessions from position i on, in the order
\* asyncio.gather starts them (line 945), acc being how those before ended
RECURSIVE CheckFrom(_, _, _, _, _)
CheckFrom(acc, i, todo, t, es) ==
    IF acc.raised \/ i > Len(PhoneOrder) THEN acc
    ELSE IF PhoneOrder[i] \notin todo THEN CheckFrom(acc, i + 1, todo, t, es)
    ELSE CheckFrom(Checked(acc, PhoneOrder[i],
                           Session(acc.w, PhoneOrder[i], t, es[PhoneOrder[i]])),
                   i + 1, todo, t, es)

\* the UPDATE of line 959
MarkInactive(reg, s) ==
    [p \in Phones |-> IF p \in s /\ reg[p].exists
                      THEN [reg[p] EXCEPT !.status = "inactive"] ELSE reg[p]]

\* lines 948-961 after the checks ended as r
BulkAfter(r, e) ==
    IF r.raised THEN Escapes("pool_exhausted", r.w)
    ELSE IF r.unhealthy = {} \/ ~e.confirm THEN Fine([r.w EXCEPT !.failed = r.unhealthy])
    ELSE IF e.db = "error" THEN Escapes("registry", r.w)
    ELSE Fine([r.w EXCEPT !.reg = MarkInactive(@, r.unhealthy), !.failed = r.unhealthy])

\* the part of bulk_session_check after list_sessions returned sessions
\* (lines 943-961), meeting e: the Progress context of line 943, the ends of
\* the checks, the answer of line 957 and the UPDATE of line 959
bulk_session_check(w, sessions, t, e) ==
    IF e.progress = "error" THEN Escapes("context", w)
    ELSE BulkAfter(CheckFrom([raised |-> FALSE, unhealthy |-> {}, w |-> w],
                             1, sessions, t, e.checks), e)

\* what the checks of one bulk_session_check may meet in world w
BulkEnvs(w, sessions) ==
    {[progress |-> "error", checks |-> <<>>, confirm |-> FALSE, db |-> "ok"]}
    \cup {e \in [progress : {"ok"}, checks : SessionEnvs(w, sessions),
                 confirm : BOOLEAN, db : {"ok", "error"}] :
             ~e.confirm => e.db = "ok"}

\* the UPDATE of line 979
SetNote(reg, p) == IF reg[p].exists THEN [reg EXCEPT ![p].notes = "note"] ELSE reg

\* the part of add_session_note after list_sessions returned sessions (lines
\* 969-985)
add_session_note(w, choice, db) ==
    IF choice \notin Phones THEN Fine(w)
    ELSE IF db = "error" THEN Escapes("registry", w)
    ELSE Fine([w EXCEPT !.reg = SetNote(@, choice)])

\* the part of delete_session after list_sessions returned sessions (lines
\* 1011-1028), meeting e: the answer of line 1019, the DELETE of line 1021
\* and os.remove of line 1022
delete_session(w, choice, e) ==
    IF choice \notin Phones \/ ~e.confirm THEN Fine(w)
    ELSE IF e.db = "error" THEN Escapes("registry", w)
    ELSE IF e.remove = "error" THEN Escapes("file", [w EXCEPT !.reg[choice] = NoRow])
    ELSE Fine([w EXCEPT !.reg[choice] = NoRow, !.files[choice] = "absent"])

\* what one delete_session call may meet
DeleteEnvs ==
    {e \in [confirm : BOOLEAN, db : {"ok", "error"}, remove : {"ok", "error"}] :
        /\ ~e.confirm => e.db = "ok"
        /\ (~e.confirm \/ e.db = "error") => e.remove = "ok"}

\* the choices a prompt "Select session (1-n, 'q' to quit)" takes (lines 452,
\* 969, 1011): q, an entry that is no index of the list, or a session listed
Choices(sessions) == {"q", "invalid"} \cup sessions

----------------------------------------------------------------------------
(* main (lines 1043-1119): one action per iteration of the loop of line      *)
(* 1102, by the option chosen at the prompt of line 1114                     *)

\* handlers main runs in one behaviour
MaxOps == 2

\* the pool, the registry and the session folder as a handler finds them;
\* authed collects the phones a remote authentication succeeded for while
\* the handler runs, failed the phones bulk_session_check found unhealthy
World == [pool |-> API_POOL, reg |-> registry, files |-> files, authed |-> {},
          failed |-> {}]

\* the phones whose row a handler inserted, or updated in last_used,
\* session_hash or status, without a remote authentication of that phone
\* having succeeded in the handler
Unearned(old, new, authed) ==
    {p \in Phones \ authed :
        /\ new[p].exists
        /\ \/ ~old[p].exists
           \/ new[p].last_used /= old[p].last_used
           \/ new[p].session_hash /= old[p].session_hash
           \/ new[p].status /= old[p].status}

\* the loop is at line 1103
AtPrompt == menu = "loop" /\ ops < MaxOps

\* line 1119 for handler op ending as r says: an exception that leaves the
\* handler leaves main and asyncio.run, and line 1129 ends the process
Ends(op, r) ==
    /\ API_POOL' = r.w.pool
    /\ registry' = r.w.reg
    /\ files' = r.w.files
    /\ menu' = IF r.raised THEN "crashed" ELSE "loop"
    /\ ran' = [op |-> op, end |-> IF r.raised THEN "raised" ELSE "returned",
               why |-> r.why, unearned |-> Unearned(registry, r.w.reg, r.w.authed),
               changed |-> {"registry" : x \in {y \in {0} : r.w.reg /= registry}}
                           \cup {"files" : x \in {y \in {0} : r.w.files /= files}},
               failed |-> r.w.failed,
               removed |-> {p \in Phones : files[p] /= "absent" /\ r.w.files[p] = "absent"}]
    /\ ops' = ops + 1
    /\ UNCHANGED <<now, acq, clientVars, gatherVars, startupVars, dbVars>>

\* update_header (lines 1069-1077): the SELECT of line 1071 raises
MainHeaderFails ==
    /\ AtPrompt
    /\ Ends("update_header", Escapes("registry", World))

\* option 19 (lines 1116-1118)
MenuExit ==
    /\ AtPrompt
    /\ menu' = "exited"
    /\ ran' = [op |-> "exit", end |-> "returned", why |-> "none", unearned |-> {},
               changed |-> {}, failed |-> {}, removed |-> {}]
    /\ UNCHANGED <<ops, poolVars, files, registry, clientVars, gatherVars, startupVars, dbVars>>

\* option 1
MenuCreateSession ==
    /\ AtPrompt
    /\ \E e \in CreateEnvs : Ends("create_session", create_session(World, now, e))

\* option 2
MenuListSessions ==
    /\ AtPrompt
    /\ \E e \in ListEnvs(World) :
        Ends("list_sessions", list_sessions(World, "active", now, e))

\* options 3 to 10 (terminate_other_sessions, show_active_sessions,
\* update_profile_random_name, clear_contacts, delete_all_chats_advanced,
\* check_spam_status, read_session_otp, manage_2fa): each begins with
\* select_and_login and goes on, when it got a client, with a body inside
\* try/except Exception that changes neither the pool, the registry nor the
\* session files; the client is not disconnected
MenuLoginOp ==
    /\ AtPrompt
    /\ \E e \in ListEnvs(World) :
        \E l \in {list_sessions(World, "active", now, e)} :
        IF l.raised \/ l.none THEN Ends("select_and_login", l)
        ELSE \E choice \in Choices(SessionFiles(files)) :
               \E o \in IF choice \in Phones THEN ConnectEndsFor(l.w.files[choice])
                        ELSE {"false"} :
                 Ends("select_and_login", select_and_login(l.w, choice, now, o))

\* option 11: export_sessions (lines 813-836); the body is inside
\* try/except Exception and writes a file outside the session folder
MenuExport ==
    /\ AtPrompt
    /\ \E e \in ListEnvs(World) :
        Ends("export_sessions", list_sessions(World, "active", now, e))

\* option 12: session_statistics (lines 838-858), all inside try/except
MenuStatistics ==
    /\ AtPrompt
    /\ Ends("session_statistics", Fine(World))

\* option 13: backup_sessions (lines 860-883); mkdir of line 867 is outside
\* the try block, the copies are inside
MenuBackup ==
    /\ AtPrompt
    /\ \E e \in ListEnvs(World), mkdir \in {"ok", "error"} :
        \E l \in {list_sessions(World, "active", now, e)} :
        IF l.raised \/ l.none THEN mkdir = "ok" /\ Ends("backup_sessions", l)
        ELSE Ends("backup_sessions",
                  IF mkdir = "error" THEN Escapes("file", l.w) ELSE Fine(l.w))

\* option 14
MenuCleanup ==
    /\ AtPrompt
    /\ \E e \in CleanupEnvs(World) :
        Ends("cleanup_sessions", cleanup_sessions(World, e))

\* option 15
MenuBulkCheck ==
    /\ AtPrompt
    /\ \E e \in ListEnvs(World) :
        \E l \in {list_sessions(World, "active", now, e)} :
        IF l.raised \/ l.none THEN Ends("bulk_session_check", l)
        ELSE \E b \in BulkEnvs(l.w, SessionFiles(files)) :
               Ends("bulk_session_check",
                    bulk_session_check(l.w, SessionFiles(files), now, b))

\* option 16
MenuAddNote ==
    /\ AtPrompt
    /\ \E e \in ListEnvs(World) :
        \E l \in {list_sessions(World, "active", now, e)} :
        IF l.raised \/ l.none THEN Ends("add_session_note", l)
        ELSE \E choice \in Choices(SessionFiles(files)), db \in {"ok", "error"} :
               /\ choice \notin Phones => db = "ok"
               /\ Ends("add_session_note", add_session_note(l.w, choice, db))

\* option 17: view_session_notes (lines 987-1003); the SELECT of line 991 is
\* in no try block
MenuViewNotes ==
    /\ AtPrompt
    /\ \E db \in {"ok", "error"} :
        Ends("view_session_notes",
             IF db = "error" THEN Escapes("registry", World) ELSE Fine(World))

\* option 18
MenuDelete ==
    /\ AtPrompt
    /\ \E e \in ListEnvs(World) :
        \E l \in {list_sessions(World, "active", now, e)} :
        IF l.raised \/ l.none THEN Ends("delete_session", l)
        ELSE \E choice \in Choices(SessionFiles(files)), d \in DeleteEnvs :
               /\ choice \notin Phones => ~d.confirm
               /\ Ends("delete_session", delete_session(l.w, choice, d))

\* the program starts with the pool as line 78 builds it or, having run for
\* a while, one acquisition away from exhaustion; the session folder holds
\* the files earlier runs or the operator left, the registry the rows
\* create_session inserted
MenuInit ==
    /\ API_POOL \in {FreshPool, LastSlotPool}
    /\ now = 0
    /\ acq = NoAcq
    /\ files \in [Phones -> {"absent", "secret"}]
    /\ \E s \in SUBSET Phones :
          registry = [p \in Phones |-> IF p \in s THEN CreatedRow(p, 0) ELSE NoRow]
    /\ ClientFresh
    /\ tasks = EmptyBag
    /\ MenuIdle
    /\ NoWriters
    /\ StartedWith(DefaultConfig)

MenuNext ==
    \/ MainHeaderFails
    \/ MenuExit
    \/ MenuCreateSession
    \/ MenuListSessions
    \/ MenuLoginOp
    \/ MenuExport
    \/ MenuStatistics
    \/ MenuBackup
    \/ MenuCleanup
    \/ MenuBulkCheck
    \/ MenuAddNote
    \/ MenuViewNotes
    \/ MenuDelete

SpecMenu == MenuInit /\ [][MenuNext]_vars

----------------------------------------------------------------------------
(* Several safe_execute calls on one connected client at the same time, as   *)
(* asyncio.gather runs them (line 616): each coroutine is suspended while    *)
(* its remote call is in flight and while it sleeps                          *)

\* coroutines handed to one gather
MaxTasks == 5

Task(st, a) == [st |-> st, attempt |-> a]

\* the bag b with one coroutine moved from position t to position u
Moved(b, t, u) == (b (-) SetToBag({t})) (+) SetToBag({u})

\* the coroutines whose remote call has been sent and has not answered
InFlight ==
    BagCardinality([t \in {x \in BagToSet(tasks) : x.st = "in_flight"} |-> tasks[t]])

\* the position of a coroutine after an iteration that ended as step says
TaskAfter(t, step) ==
    IF step.end = "retry" THEN Task("ready", t.attempt + 1)
    ELSE Task(step.end, t.attempt)

\* lines 252-254: the request is sent, the coroutine waits for the answer.
\* Nothing in safe_execute makes it wait for another coroutine first.
TaskSend ==
    /\ ReachesRemote
    /\ \E t \in BagToSet(tasks) :
        /\ t.st = "ready"
        /\ tasks' = Moved(tasks, t, Task("in_flight", t.attempt))
    /\ UNCHANGED <<poolVars, clientVars, files, registry, menuVars, startupVars, dbVars>>

\* the remote call answers: result, rate-limit signal or error
TaskAnswer ==
    /\ \E t \in BagToSet(tasks) :
        /\ t.st = "in_flight"
        /\ \E o \in {"ok", "flood", "error"} : \E s \in FloodSeconds :
            tasks' = Moved(tasks, t, TaskAfter(t, SafeExecuteStep(t.attempt, o, s)))
    /\ UNCHANGED <<poolVars, clientVars, files, registry, menuVars, startupVars, dbVars>>

\* line 253 or 254 raises TypeError before anything is sent
TaskTypeError ==
    /\ ~ReachesRemote
    /\ \E t \in BagToSet(tasks) :
        /\ t.st = "ready"
        /\ tasks' = Moved(tasks, t, TaskAfter(t, SafeExecuteStep(t.attempt, "type_error", 0)))
    /\ UNCHANGED <<poolVars, clientVars, files, registry, menuVars, startupVars, dbVars>>

\* a client after a successful connect, and a gather of n safe_execute calls
\* of one kind of request on it
GatherInit ==
    /\ API_POOL = get_available_api(FreshPool, 0).pool
    /\ now = 0
    /\ acq = [idx |-> 1, pre |-> FreshPool, at |-> 0]
    /\ files = [p \in Phones |-> IF p = ThePhone THEN "secret" ELSE "absent"]
    /\ registry = UpdateLastUsed([p \in Phones |-> IF p = ThePhone THEN CreatedRow(p, 0) ELSE NoRow],
                                 ThePhone, 0)
    /\ client = "TelegramClient"
    /\ connected = TRUE
    /\ me = "User"
    /\ connOpen = TRUE
    /\ leaked = 0
    /\ session = "secret"
    /\ pc = "gather"
    /\ caller = "api"
    /\ attempt = 0
    /\ request \in RequestKinds
    /\ ret = Returned("connect", "True")
    /\ tr = [StartTrace([p \in Phones |-> IF p = ThePhone THEN CreatedRow(p, 0) ELSE NoRow],
                        Returned("__init__", "None"))
             EXCEPT !.conn = <<"ok">>, !.dbUpdates = 1]
    /\ calls = 1
    /\ \E n \in 1..MaxTasks : tasks = [t \in {Task("ready", 0)} |-> n]
    /\ MenuIdle
    /\ NoWriters
    /\ StartedWith(DefaultConfig)

GatherNext == TaskSend \/ TaskAnswer \/ TaskTypeError

SpecGather == GatherInit /\ [][GatherNext]_vars

----------------------------------------------------------------------------
(* Coroutines and processes writing the registry through db_connection     *)

\* the writers: in process 1 the connects bulk_session_check gathers, one per
\* session; in process 2, a second instance of the program, a connect of the
\* first phone and the UPDATE of line 959 on it
WriterSpecs ==
    <<[proc |-> 1, phone |-> PhoneOrder[1], stmt |-> "connect"],
      [proc |-> 1, phone |-> PhoneOrder[2], stmt |-> "connect"],
      [proc |-> 2, phone |-> PhoneOrder[1], stmt |-> "connect"],
      [proc |-> 2, phone |-> PhoneOrder[1], stmt |-> "mark"]>>

Writers == 1..Len(WriterSpecs)

\* a db_connection block that awaits between its statement and its commit
DbBlockAwaiting == <<"execute", "await", "commit">>

\* lines 214-218 (958-959) within lines 156-162: the statement runs, the block
\* ends, the finally clause commits and closes; nothing is awaited in between
DbBlock == <<"execute", "commit">>

\* a writer awaits the remote service (lines 207-211; line 945 for the
\* UPDATE of line 959), then runs its block
Coroutine == <<"await">> \o DbBlock

NewWriter == [pc |-> 1, stamp |-> NoTime, end |-> "running"]

\* what the writer at position i of its coroutine is about to do
StepAt(i) == IF i <= Len(Coroutine) THEN Coroutine[i] ELSE "end"

\* the writer moved to position i: at an await or at its end its event loop
\* is free to run another coroutine
LoopAfter(w, i) ==
    [loops EXCEPT ![WriterSpecs[w].proc] = IF StepAt(i) \in {"await", "end"} THEN 0 ELSE w]

WriterAfter(w, i) ==
    [writers EXCEPT ![w].pc = i,
                    ![w].end = IF StepAt(i) = "end" THEN "done" ELSE @]

\* the statement of writer w applied to the registry
Written(reg, w, t) ==
    IF WriterSpecs[w].stmt = "connect"
    THEN UpdateLastUsed(reg, WriterSpecs[w].phone, t)
    ELSE MarkInactive(reg, {WriterSpecs[w].phone})

\* the event loop of the writer's process resumes it: what it awaited is
\* there. The arguments of the statement (datetime.now() at line 217) are
\* computed before sqlite is asked for the lock
Resume(w) ==
    /\ writers[w].end = "running"
    /\ StepAt(writers[w].pc) = "await"
    /\ loops[WriterSpecs[w].proc] = 0
    /\ IF StepAt(writers[w].pc + 1) = "execute"
       THEN /\ writers' = [WriterAfter(w, writers[w].pc + 1) EXCEPT ![w].stamp = now]
            /\ now' = now + 1
       ELSE /\ writers' = WriterAfter(w, writers[w].pc + 1)
            /\ UNCHANGED now
    /\ loops' = LoopAfter(w, writers[w].pc + 1)
    /\ UNCHANGED <<API_POOL, acq, clientVars, files, registry, tasks, menuVars, startupVars, sqlite>>

\* conn.execute of an UPDATE: sqlite takes the write lock. While a writer of
\* another process holds it the busy handler waits (busy_timeout, line 157);
\* while a suspended coroutine of the same process holds it the wait blocks
\* the event loop that would let the holder commit, and ends after 20 s in
\* OperationalError
Execute(w) ==
    /\ loops[WriterSpecs[w].proc] = w
    /\ StepAt(writers[w].pc) = "execute"
    /\ IF sqlite.lock = 0
       THEN /\ sqlite' = [sqlite EXCEPT !.lock = w]
            /\ writers' = WriterAfter(w, writers[w].pc + 1)
            /\ loops' = LoopAfter(w, writers[w].pc + 1)
       ELSE /\ WriterSpecs[sqlite.lock].proc = WriterSpecs[w].proc
            /\ writers' = [writers EXCEPT ![w].end = "raised"]
            /\ loops' = [loops EXCEPT ![WriterSpecs[w].proc] = 0]
            /\ UNCHANGED sqlite
    /\ UNCHANGED <<poolVars, clientVars, files, registry, tasks, menuVars, startupVars>>

\* lines 160-162: conn.commit() makes the statement visible and frees the lock
Commit(w) ==
    /\ loops[WriterSpecs[w].proc] = w
    /\ StepAt(writers[w].pc) = "commit"
    /\ sqlite.lock = w
    /\ registry' = Written(registry, w, writers[w].stamp)
    /\ sqlite' = [sqlite EXCEPT !.lock = 0, !.commits = Append(@, w)]
    /\ writers' = WriterAfter(w, writers[w].pc + 1)
    /\ loops' = LoopAfter(w, writers[w].pc + 1)
    /\ UNCHANGED <<poolVars, clientVars, files, tasks, menuVars, startupVars>>

\* the registry holds any of the rows; every writer is awaiting the remote
\* service
WritersInit ==
    /\ API_POOL = FreshPool
    /\ now = 1
    /\ acq = NoAcq
    /\ files = [p \in Phones |-> "secret"]
    /\ \E ps \in SUBSET Phones :
         registry = [p \in Phones |-> IF p \in ps THEN CreatedRow(p, 0) ELSE NoRow]
    /\ ClientFresh
    /\ tasks = EmptyBag
    /\ MenuIdle
    /\ StartedWith(DefaultConfig)
    /\ writers = [w \in Writers |-> NewWriter]
    /\ loops = [q \in Procs |-> 0]
    /\ sqlite = [lock |-> 0, commits |-> <<>>, handles |-> 0, pending |-> {}]

WritersNext ==
    \/ \E w \in Writers : Resume(w)
    \/ \E w \in Writers : Execute(w)
    \/ \E w \in Writers : Commit(w)

SpecWriters == WritersInit /\ [][WritersNext]_vars

----------------------------------------------------------------------------
(* One db_connection block after another (lines 154-162). Here pc is the   *)
(* position in the context manager, request the statement of the block and *)
(* ret the exception on its way out, if any.                                *)

\* the statements the blocks of the program run
Statements == {"SELECT", "UPDATE", "INSERT", "DELETE"}

\* `async with db_connection() as conn:` is entered (lines 156-158):
\* sqlite3.connect raises, or the PRAGMA of line 157, which is before the
\* try, raises on the connection just opened, or the block is reached. The
\* UPDATE is the executemany of line 959 over the unhealthy phones.
DbEnter ==
    /\ pc = "idle"
    /\ calls < MaxCalls
    /\ calls' = calls + 1
    /\ \E stmt \in Statements : \E unhealthy \in SUBSET Phones :
        /\ unhealthy = {} <=> stmt /= "UPDATE"
        /\ request' = stmt
        /\ tasks' = SelectSeq(PhoneOrder, LAMBDA p : p \in unhealthy)
    /\ \E o \in {"connect_raises", "pragma_raises", "ok"} :
        /\ sqlite' = [sqlite EXCEPT !.handles = IF o = "connect_raises" THEN @ ELSE @ + 1]
        /\ pc' = IF o = "ok" THEN "block" ELSE "idle"
        /\ ret' = IF o = "ok" THEN Running("db_connection")
                  ELSE Raised("db_connection", o)
    /\ tr' = [tr EXCEPT !.reg0 = registry]
    /\ UNCHANGED <<poolVars, client, connected, me, connOpen, leaked, session, files,
                   registry, caller, attempt, menuVars, startupVars, writers, loops>>

\* the statements of the block run, or one of them raises (line 159);
\* executemany raises at one of its rows, and the rows it has updated before
\* that stay in the open transaction
DbBlockRuns ==
    /\ pc = "block"
    /\ pc' = "finally"
    /\ \E k \in 0..Len(tasks) : \E raises \in BOOLEAN :
        /\ tasks /= <<>> => (raises <=> k < Len(tasks))
        /\ sqlite' = [sqlite EXCEPT !.pending = {tasks[i] : i \in 1..k}]
        /\ ret' = IF raises THEN Raised("db_connection", "block_raises") ELSE ret
    /\ UNCHANGED <<poolVars, client, connected, me, connOpen, leaked, session, files,
                   registry, caller, attempt, request, tr, calls, gatherVars, menuVars,
                   startupVars, writers, loops>>

\* line 161: conn.commit() runs however the block ended and makes what the
\* block executed permanent, or raises and ends the finally clause (the
\* transaction is then never committed)
DbCommit ==
    /\ pc = "finally"
    /\ \E raises \in BOOLEAN :
        IF raises
        THEN /\ pc' = "idle"
             /\ ret' = Raised("db_connection", "commit_raises")
             /\ sqlite' = [sqlite EXCEPT !.pending = {}]
             /\ UNCHANGED registry
        ELSE /\ pc' = "close"
             /\ sqlite' = [sqlite EXCEPT !.commits = Append(@, request), !.pending = {}]
             /\ registry' = MarkInactive(registry, sqlite.pending)
             /\ UNCHANGED ret
    /\ UNCHANGED <<poolVars, client, connected, me, connOpen, leaked, session, files,
                   caller, attempt, request, tr, calls, gatherVars, menuVars,
                   startupVars, writers, loops>>

\* line 162: conn.close(), then the exception of the block, if any, goes on
DbClose ==
    /\ pc = "close"
    /\ sqlite' = [sqlite EXCEPT !.handles = @ - 1]
    /\ pc' = "idle"
    /\ ret' = IF ret.kind = "raise" THEN ret ELSE Returned("db_connection", "None")
    /\ UNCHANGED <<poolVars, client, connected, me, connOpen, leaked, session, files,
                   registry, caller, attempt, request, tr, calls, gatherVars, menuVars,
                   startupVars, writers, loops>>

DbNext == DbEnter \/ DbBlockRuns \/ DbCommit \/ DbClose

\* the program at the menu with every session registered as active
DbInit ==
    /\ API_POOL = FreshPool
    /\ now = 0
    /\ acq = [idx |-> -1, pre |-> FreshPool, at |-> 0]
    /\ files = [p \in Phones |-> "secret"]
    /\ registry = [p \in Phones |-> CreatedRow(p, 0)]
    /\ ClientFresh
    /\ tasks = <<>>
    /\ MenuIdle
    /\ NoWriters
    /\ StartedWith(DefaultConfig)

SpecDb == DbInit /\ [][DbNext]_vars

----------------------------------------------------------------------------
(* The bulk operations: clear_contacts, delete_all_chats_advanced and      *)
(* terminate_other_sessions after select_and_login returned a client       *)

BulkOps == {"clear_contacts", "delete_all_chats_advanced",
            "terminate_other_sessions"}

\* the most contacts, dialogs or other sessions an account is given
MaxItems == 3

\* the BATCH_SIZE settings followed
BatchSizes == {1, 2}

\* line 570: the slices [i : i + size] of a list of n items, i = 0, size, ...
Batches(n, size) ==
    [k \in 1..((n + size - 1) \div size) |->
        [j \in 1..(IF k * size <= n THEN size ELSE n - (k - 1) * size) |->
            (k - 1) * size + j]]

\* a request the operation builds for ids: awaited through safe_execute or,
\* for a dialog that is not a channel, through client.client.delete_dialog
BulkTask(ids, via) == [ids |-> ids, via |-> via, st |-> "ready", attempt |-> 0]

\* what GetAuthorizationsRequest answers for an account with n other
\* sessions: the authorization of this client, listed at position cur with
\* current true, and the others; the hash of each is its position
Authorizations(n, cur) == [k \in 1..(n + 1) |-> [hash |-> k, current |-> (k = cur)]]

\* the authorizations of line 476 without the filter
EveryAuthorization(auths) == auths

\* line 476: [a for a in auths.authorizations if not a.current]
OtherSessions(auths) == SelectSeq(auths, LAMBDA a : ~a.current)

\* what each operation builds once the prompt is answered yes, for n items of
\* which the first ch are channels: the batches of line 570, one coroutine per
\* dialog (lines 610-614), one request per authorization of the others, the
\* client's own being listed at cur (lines 495-496)
Built(op, n, ch, cur) ==
    IF op = "clear_contacts"
    THEN [k \in 1..Len(Batches(n, config.BATCH_SIZE)) |->
            BulkTask(Batches(n, config.BATCH_SIZE)[k], "safe_execute")]
    ELSE IF op = "delete_all_chats_advanced"
    THEN [k \in 1..n |-> BulkTask(<<k>>, IF k <= ch THEN "safe_execute"
                                                   ELSE "delete_dialog")]
    ELSE [k \in 1..Len(OtherSessions(Authorizations(n, cur))) |->
            BulkTask(<<OtherSessions(Authorizations(n, cur))[k].hash>>, "safe_execute")]

\* the prompt that lets everything through
ProceedsUnasked(answer) == TRUE

\* lines 490, 565 and 604: Confirm.ask; anything but yes returns
Proceeds(answer) == answer = "yes"

\* the first statement of the try ended: safe_execute raised or returned None
\* (the attribute access of the next line raises), both caught by the except
\* of the operation; or it returned n items, ch of them channels. Nothing to
\* delete returns (lines 477, 550, 587).
BulkFetch ==
    /\ pc = "fetch"
    /\ \E end \in {"result", "None", "raise"} : \E n \in 0..MaxItems :
       \E ch \in IF caller = "delete_all_chats_advanced" THEN 0..n ELSE {0} :
       \E cur \in IF caller = "terminate_other_sessions" THEN 1..(n + 1) ELSE {0} :
        IF end = "result" /\ n > 0
        THEN /\ pc' = "confirm"
             /\ tr' = [tr EXCEPT !.items = n, !.channels = ch, !.current = cur]
             /\ UNCHANGED ret
        ELSE /\ pc' = "menu"
             /\ ret' = Returned(caller, IF end = "result" THEN "nothing" ELSE "failed")
             /\ UNCHANGED tr
    /\ UNCHANGED <<poolVars, client, connected, me, connOpen, leaked, session,
                   files, registry, caller, attempt, request, calls, tasks,
                   menuVars, startupVars, dbVars>>

\* lines 490-491, 565-566, 604-605: the prompt; on yes the requests are built
\* and the loop of lines 495, 571 or the gather of line 616 begins
BulkConfirm ==
    /\ pc = "confirm"
    /\ \E answer \in {"yes", "no"} :
        /\ tr' = [tr EXCEPT !.answer = answer]
        /\ IF Proceeds(answer)
           THEN /\ tasks' = Built(caller, tr.items, tr.channels, tr.current)
                /\ pc' = IF caller = "delete_all_chats_advanced" THEN "gather" ELSE "loop"
                /\ UNCHANGED ret
           ELSE /\ pc' = "menu"
                /\ ret' = Returned(caller, "declined")
                /\ UNCHANGED tasks
    /\ UNCHANGED <<poolVars, client, connected, me, connOpen, leaked, session,
                   files, registry, caller, attempt, request, calls,
                   menuVars, startupVars, dbVars>>

\* the requests that may be sent next: in the loops the first one that has not
\* ended, while the loop runs; under gather every coroutine, which keeps
\* running when gather has raised into the operation
Runnable ==
    IF caller = "delete_all_chats_advanced"
    THEN {i \in 1..Len(tasks) : tasks[i].st \notin {"done", "raised"}}
    ELSE {i \in 1..Len(tasks) :
            /\ pc = "loop"
            /\ tasks[i].st \notin {"done", "raised"}
            /\ \A j \in 1..(i - 1) : tasks[j].st = "done"}

\* the operation once its requests stand as ts: gather (line 616) or the loop
\* raises into the except of the operation when a request raised, and the
\* operation returns when every request ended
OperationAfter(ts) ==
    IF pc = "menu" THEN UNCHANGED <<pc, ret>>
    ELSE IF \E i \in 1..Len(ts) : ts[i].st = "raised"
    THEN pc' = "menu" /\ ret' = Returned(caller, "failed")
    ELSE IF \A i \in 1..Len(ts) : ts[i].st = "done"
    THEN pc' = "menu" /\ ret' = Returned(caller, "done")
    ELSE UNCHANGED <<pc, ret>>

\* lines 253-254 or delete_dialog: the request goes out
BulkSend ==
    /\ \E i \in Runnable :
        /\ tasks[i].st = "ready"
        /\ tasks' = [tasks EXCEPT ![i].st = "in_flight"]
        /\ tr' = [tr EXCEPT !.log = Append(@, [kind |-> "send", task |-> i])]
    /\ UNCHANGED <<poolVars, client, connected, me, connOpen, leaked, session,
                   files, registry, pc, caller, attempt, request, ret, calls,
                   menuVars, startupVars, dbVars>>

\* the answer to request i, or line 253 raising TypeError before anything is
\* sent: safe_execute sleeps and retries as SafeExecuteStep says, and returns
\* None to a loop that ignores it; delete_dialog has no retry
BulkAnswer ==
    /\ \E i \in Runnable : \E o \in {"ok", "flood", "error", "type_error"} :
        /\ tasks[i].st = IF o = "type_error" THEN "ready" ELSE "in_flight"
        /\ o = "type_error" => tasks[i].via = "safe_execute"
        /\ \E s \in FloodSeconds :
           \E step \in {IF tasks[i].via = "safe_execute"
                        THEN SafeExecuteStep(tasks[i].attempt, o, s)
                        ELSE [end |-> IF o = "ok" THEN "result" ELSE "raise",
                              sleeps |-> <<>>]} :
           \E ts \in {[tasks EXCEPT
                         ![i].st = IF step.end = "retry" THEN "ready"
                                   ELSE IF step.end = "raise" THEN "raised"
                                   ELSE "done",
                         ![i].attempt = IF step.end = "retry" THEN @ + 1 ELSE @]} :
            /\ tasks' = ts
            /\ tr' = [tr EXCEPT !.log = @ \o [k \in 1..Len(step.sleeps) |->
                                               [kind |-> "sleep", task |-> i]]]
            /\ OperationAfter(ts)
    /\ UNCHANGED <<poolVars, client, connected, me, connOpen, leaked, session,
                   files, registry, caller, attempt, request, calls,
                   menuVars, startupVars, dbVars>>

\* a connected client handed to one of the operations, in a process whose
\* BATCH_SIZE is one of BatchSizes and whose MAX_RETRIES is 1
BulkInit ==
    /\ API_POOL = get_available_api(FreshPool, 0).pool
    /\ now = 0
    /\ acq = [idx |-> 1, pre |-> FreshPool, at |-> 0]
    /\ files = [p \in Phones |-> IF p = ThePhone THEN "secret" ELSE "absent"]
    /\ registry = UpdateLastUsed([p \in Phones |-> IF p = ThePhone THEN CreatedRow(p, 0) ELSE NoRow],
                                 ThePhone, 0)
    /\ client = "TelegramClient"
    /\ connected = TRUE
    /\ me = "User"
    /\ connOpen = TRUE
    /\ leaked = 0
    /\ session = "secret"
    /\ pc = "fetch"
    /\ caller \in BulkOps
    /\ attempt = 0
    /\ request = IF caller = "terminate_other_sessions" THEN "request" ELSE "request_class"
    /\ ret = Returned("select_and_login", "client")
    /\ tr = [items |-> 0, channels |-> 0, current |-> 0, answer |-> "none",
             log |-> <<>>]
    /\ calls = 1
    /\ tasks = <<>>
    /\ MenuIdle
    /\ NoWriters
    /\ \E b \in BatchSizes :
        StartedWith([DefaultConfig EXCEPT !.MAX_RETRIES = 1, !.BATCH_SIZE = b])

BulkNext == BulkFetch \/ BulkConfirm \/ BulkSend \/ BulkAnswer

SpecBulk == BulkInit /\ [][BulkNext]_vars

----------------------------------------------------------------------------
(* SIGINT and SIGTERM while a session file is being saved                   *)

\* lines 1122-1123: both signals have the handler sys.exit(0)
Signals == {"SIGINT", "SIGTERM"}

\* the statements that save a session, in order: disconnect (lines 233-238)
\* and the end of create_session (lines 355-365); each opens the file with
\* mode 'w', writes the secret and leaves the with block
SaveSteps(op) ==
    IF op = "disconnect"
    THEN <<"open", "write", "close", "chmod", "client_disconnect", "flag", "done">>
    ELSE <<"open", "write", "close", "chmod", "db_enter", "insert", "commit", "done">>

\* the statement after s in op
StepAfter(op, s) ==
    SaveSteps(op)[1 + CHOOSE i \in 1..Len(SaveSteps(op)) : SaveSteps(op)[i] = s]

\* the file of phone p after statement s: open(path, 'w') creates or
\* truncates it, the write puts the secret in it
FileAfter(f, s) ==
    IF s = "open" THEN "" ELSE IF s = "write" THEN "secret" ELSE f

\* the next statement of the operation runs
SaveStep ==
    /\ pc \in {"open", "write", "close", "chmod", "client_disconnect", "flag",
               "db_enter", "insert", "commit"}
    /\ pc' = StepAfter(caller, pc)
    /\ files' = [files EXCEPT ![tr.phone] = FileAfter(@, pc)]
    /\ connOpen' = (connOpen /\ pc /= "client_disconnect")
    /\ connected' = (connected /\ pc /= "flag")
    /\ client' = IF pc = "flag" THEN "None" ELSE client
    /\ sqlite' = [sqlite EXCEPT !.handles = IF pc = "db_enter" THEN @ + 1
                                            ELSE IF pc = "commit" THEN @ - 1 ELSE @]
    /\ registry' = IF pc = "commit"
                   THEN [registry EXCEPT ![tr.phone] = CreatedRow(tr.phone, now)]
                   ELSE registry
    /\ ret' = IF pc' = "done" THEN Returned(caller, "None") ELSE ret
    /\ UNCHANGED <<poolVars, me, leaked, session, caller, attempt, request, tr,
                   calls, gatherVars, menuVars, startupVars, writers, loops>>

\* a signal arrives before the next statement: the handler raises SystemExit
\* there, which no except Exception catches; the with blocks it leaves close
\* the file as it is, and the finally of db_connection (lines 160-162)
\* commits what was executed and closes
Interrupt ==
    /\ pc \in {"open", "write", "close", "chmod", "client_disconnect", "flag",
               "db_enter", "insert", "commit"}
    /\ \E sig \in Signals : tr' = [tr EXCEPT !.signal = sig]
    /\ pc' = "exited"
    /\ ret' = Raised(caller, "SystemExit")
    /\ sqlite' = [sqlite EXCEPT !.handles = IF pc \in {"insert", "commit"} THEN @ - 1 ELSE @]
    /\ registry' = IF pc = "commit"
                   THEN [registry EXCEPT ![tr.phone] = CreatedRow(tr.phone, now)]
                   ELSE registry
    /\ UNCHANGED <<poolVars, client, connected, me, connOpen, leaked, session,
                   files, caller, attempt, request, calls, gatherVars, menuVars,
                   startupVars, writers, loops>>

\* a connected client about to save the session of one phone: disconnect of
\* a registered session, or create_session for a number that is new or
\* registered already; the other session is registered or not
InterruptInit ==
    /\ API_POOL = get_available_api(FreshPool, 0).pool
    /\ now = 0
    /\ acq = [idx |-> 1, pre |-> FreshPool, at |-> 0]
    /\ caller \in {"disconnect", "create_session"}
    /\ \E p \in Phones : \E had \in SUBSET Phones :
        /\ caller = "disconnect" => p \in had
        /\ files = [q \in Phones |-> IF q \in had THEN "secret" ELSE "absent"]
        /\ registry = [q \in Phones |-> IF q \in had THEN CreatedRow(q, 0) ELSE NoRow]
        /\ tr = [phone |-> p, before |-> IF p \in had THEN "secret" ELSE "absent",
                 signal |-> "none"]
    /\ client = "TelegramClient"
    /\ connected = TRUE
    /\ me = "User"
    /\ connOpen = TRUE
    /\ leaked = 0
    /\ session = "secret"
    /\ pc = "open"
    /\ attempt = 0
    /\ request = "request"
    /\ ret = Returned("connect", "True")
    /\ calls = 1
    /\ tasks = <<>>
    /\ MenuIdle
    /\ NoWriters
    /\ StartedWith(DefaultConfig)

InterruptNext == SaveStep \/ Interrupt

SpecInterrupt == InterruptInit /\ [][InterruptNext]_vars

----------------------------------------------------------------------------
(* The sign-in dialogue of create_session (lines 298-378) for one phone     *)

\* line 313: range(3)
CodePrompts == 3

\* the row of phone p with the note of the operator on it
NotedRow(p) == [CreatedRow(p, 0) EXCEPT !.notes = "note"]

\* create_session returns v (lines 302, 316, 325, 333, 344, 368, 373, 378);
\* leaving the TelegramClient context disconnects the client
LoginReturns(v) ==
    /\ pc' = "idle"
    /\ ret' = Returned("create_session", v)
    /\ connOpen' = FALSE

\* lines 298-312: the overwrite question when the file exists, the
\* credential, the entry of the TelegramClient context, whose __aenter__ is
\* the start() of the library (it returns with the client authorized, or
\* merely connected, or raises out of create_session), connect and
\* send_code_request
LoginBegin ==
    /\ pc = "begin"
    /\ \E overwrite \in BOOLEAN : \E enter \in {"authorized", "connected", "raises"} :
       \E code \in {"sent", "error"} :
        IF files[ThePhone] /= "absent" /\ ~overwrite
        THEN /\ LoginReturns("path")
             /\ UNCHANGED <<API_POOL, me, attempt, tr>>
        ELSE /\ API_POOL' = get_available_api(API_POOL, now).pool
             /\ tr' = [tr EXCEPT !.entered = enter]
             /\ IF enter = "raises"
                THEN /\ pc' = "idle"
                     /\ ret' = Raised("create_session", "context")
                     /\ UNCHANGED <<me, attempt, connOpen>>
                ELSE /\ me' = IF enter = "authorized" THEN "User" ELSE "None"
                     /\ IF code = "sent"
                        THEN /\ pc' = "prompt"
                             /\ attempt' = 0
                             /\ connOpen' = TRUE
                             /\ UNCHANGED ret
                        ELSE /\ LoginReturns("None")
                             /\ UNCHANGED attempt
    /\ UNCHANGED <<now, acq, client, connected, leaked, session, files, registry,
                   caller, request, calls, gatherVars, menuVars, startupVars, dbVars>>

\* what the operator types at line 314 and what the service answers to it:
\* q; r with the resend going through or refused; a code that sign_in accepts,
\* finds invalid or expired, answers with another error, or that needs the
\* 2FA password, right or wrong
CodeAnswers ==
    {"q", "resent", "resend_error", "signed_in", "invalid", "expired",
     "rpc_error", "password_ok", "password_wrong"}

\* one iteration of the loop of lines 313-343 when the prompt is answered a:
\* "break", "return", or "next" for the iterations that end in continue or at
\* the end of the body
CodeStep(k, a) ==
    IF a \in {"signed_in", "password_ok"} THEN "break"
    ELSE IF a \in {"q", "resend_error", "rpc_error", "password_wrong"} THEN "return"
    ELSE IF a = "invalid" /\ k = CodePrompts - 1 THEN "return"
    ELSE "next"

\* lines 313-343: one code prompt; the for loop ends after CodePrompts
\* iterations and control goes on at line 345
LoginPrompt ==
    /\ pc = "prompt"
    /\ \E a \in CodeAnswers :
        /\ tr' = [tr EXCEPT !.answers = Append(@, a)]
        /\ IF CodeStep(attempt, a) = "return"
           THEN /\ LoginReturns("None")
                /\ UNCHANGED <<me, attempt>>
           ELSE /\ me' = IF CodeStep(attempt, a) = "break" THEN "User" ELSE me
                /\ attempt' = IF CodeStep(attempt, a) = "break" THEN attempt
                              ELSE attempt + 1
                /\ pc' = IF CodeStep(attempt, a) = "break" \/ attempt + 1 = CodePrompts
                         THEN "get_me" ELSE "prompt"
                /\ UNCHANGED <<ret, connOpen>>
    /\ UNCHANGED <<poolVars, client, connected, leaked, session, files, registry,
                   caller, request, calls, gatherVars, menuVars, startupVars, dbVars>>

\* lines 345-368: get_me answers with the user the client is authorized as,
\* or None, whose attributes line 347 cannot read; the session file is
\* written (lines 354-357) and the row replaced (lines 358-365); any failure
\* is caught at line 369 or 375
LoginSave ==
    /\ pc = "get_me"
    /\ \E got \in {"answer", "error"} : \E write \in WriteEnds : \E db \in {"ok", "error"} :
        /\ (got = "error" \/ me = "None") => (write = "ok" /\ db = "ok")
        /\ write /= "ok" => db = "ok"
        /\ IF got = "error" \/ me = "None"
           THEN /\ LoginReturns("None")
                /\ UNCHANGED <<files, registry>>
           ELSE /\ files' = [files EXCEPT ![ThePhone] = FileAfterDisconnect(@, write)]
                /\ registry' = IF write = "ok" /\ db = "ok"
                               THEN [registry EXCEPT ![ThePhone] = CreatedRow(ThePhone, now)]
                               ELSE registry
                /\ LoginReturns(IF write = "ok" /\ db = "ok" THEN "path" ELSE "None")
    /\ UNCHANGED <<poolVars, client, connected, me, leaked, session, caller,
                   attempt, request, tr, calls, gatherVars, menuVars, startupVars,
                   dbVars>>

\* create_session with a valid number typed: the phone is new, or has a
\* session file with its row, noted by the operator or not
LoginInit ==
    /\ API_POOL = FreshPool
    /\ now = 1
    /\ acq = [idx |-> -1, pre |-> FreshPool, at |-> 0]
    /\ \E row \in {NoRow, CreatedRow(ThePhone, 0), NotedRow(ThePhone)} :
        /\ files = [p \in Phones |-> IF p = ThePhone /\ row.exists THEN "secret" ELSE "absent"]
        /\ registry = [p \in Phones |-> IF p = ThePhone THEN row ELSE NoRow]
        /\ tr = [file0 |-> IF row.exists THEN "secret" ELSE "absent", row0 |-> row,
                 entered |-> "none", answers |-> <<>>]
    /\ client = "None"
    /\ connected = FALSE
    /\ me = "None"
    /\ connOpen = FALSE
    /\ leaked = 0
    /\ session = "None"
    /\ pc = "begin"
    /\ caller = "menu"
    /\ attempt = 0
    /\ request = "None"
    /\ ret = Returned("validate_phone", "True")
    /\ calls = 0
    /\ tasks = <<>>
    /\ MenuIdle
    /\ NoWriters
    /\ StartedWith(DefaultConfig)

LoginNext == LoginBegin \/ LoginPrompt \/ LoginSave

SpecLogin == LoginInit /\ [][LoginNext]_vars

----------------------------------------------------------------------------
(* The session file character by character: written by disconnect and      *)
(* create_session, read by connect. Here session and the session files are *)
(* sequences of characters.                                                 *)

MaxSecretLen == 3

\* what StringSession.save() returns: nothing for a session without a key,
\* or the version character followed by url-safe base64
Secrets ==
    {<<>>} \cup {<<"1">> \o b : b \in UNION {[1..n -> {"A", "z", "_", "="}] : n \in 1..MaxSecretLen}}

\* str.strip() that also takes the version character for white space
StripVersion(s) ==
    LET keep == {i \in 1..Len(s) : s[i] \notin {" ", "\t", "\n", "1"}} IN
    IF keep = {} THEN <<>>
    ELSE SubSeq(s, CHOOSE i \in keep : \A j \in keep : i <= j,
                   CHOOSE i \in keep : \A j \in keep : i >= j)

\* str.strip() of line 188: white space is dropped at both ends
Strip(s) ==
    LET keep == {i \in 1..Len(s) : s[i] \notin {" ", "\t", "\n"}} IN
    IF keep = {} THEN <<>>
    ELSE SubSeq(s, CHOOSE i \in keep : \A j \in keep : i <= j,
                   CHOOSE i \in keep : \A j \in keep : i >= j)

\* lines 233-235 and 354-356: session.save() is written to the session file
\* as it is, by writer who
Save(who) ==
    /\ pc = "signed_in"
    /\ files' = [files EXCEPT ![ThePhone] = [exists |-> TRUE, text |-> session]]
    /\ tr' = [written |-> session, by |-> who]
    /\ pc' = "saved"
    /\ UNCHANGED <<poolVars, client, connected, me, connOpen, leaked, session, registry,
                   caller, attempt, request, ret, calls, gatherVars, menuVars,
                   startupVars, dbVars>>

SaveOnDisconnect == Save("disconnect")

SaveOnCreate == Save("create_session")

\* lines 183-188: a later connect reads the file into a StringSession
LoadOnConnect ==
    /\ pc = "saved"
    /\ files[ThePhone].exists
    /\ session' = Strip(files[ThePhone].text)
    /\ pc' = "loaded"
    /\ UNCHANGED <<poolVars, client, connected, me, connOpen, leaked, files, registry,
                   caller, attempt, request, ret, tr, calls, gatherVars, menuVars,
                   startupVars, dbVars>>

\* a signed-in client holding any secret, no session file yet
RoundTripInit ==
    /\ API_POOL = FreshPool
    /\ now = 0
    /\ acq = NoAcq
    /\ files = [p \in Phones |-> [exists |-> FALSE, text |-> <<>>]]
    /\ registry = [p \in Phones |-> NoRow]
    /\ client = "TelegramClient"
    /\ connected = TRUE
    /\ me = "User"
    /\ connOpen = TRUE
    /\ leaked = 0
    /\ session \in Secrets
    /\ pc = "signed_in"
    /\ caller = "api"
    /\ attempt = 0
    /\ request = "None"
    /\ ret = Returned("connect", "True")
    /\ tr = [written |-> <<>>, by |-> "nobody"]
    /\ calls = 0
    /\ tasks = EmptyBag
    /\ MenuIdle
    /\ NoWriters
    /\ StartedWith(DefaultConfig)

RoundTripNext == SaveOnDisconnect \/ SaveOnCreate \/ LoadOnConnect

SpecRoundTrip == RoundTripInit /\ [][RoundTripNext]_vars

----------------------------------------------------------------------------
(* The registry as a set of rows and the session folder as a set of paths, *)
(* under the handlers that create, discover, annotate, mark and delete.    *)
(* Here phone numbers and paths are sequences of characters, registry is   *)
(* the set of rows (phone, path, status, notes) and files the set of paths *)
(* in the session folder.                                                   *)

\* what the operator may type at the prompt of line 290: three numbers, a
\* number that is too short, a number without its plus sign
PhoneInputs ==
    {<<"+", "1", "0", "0", "0", "0", "0", "0", "0", "0", "0", d>> : d \in {"1", "2", "3"}}
        \cup {<<"+", "1">>, <<"1", "0", "0", "0", "0", "0", "0", "0", "0", "0", "1">>}

\* lines 283-285
validate_phone(phone) ==
    /\ phone /= <<>>
    /\ phone[1] = "+"
    /\ 10 <= Len(phone) /\ Len(phone) <= 15
    /\ \A i \in 2..Len(phone) :
         phone[i] \in {"0", "1", "2", "3", "4", "5", "6", "7", "8", "9"}

\* line 298: the session folder, the phone without its plus sign, the suffix
PathOf(phone) == <<"sessions/">> \o Tail(phone) \o <<".session">>

\* lines 393, 976, 1018: a plus sign and the base name without any ".session"
PhoneOf(path) == <<"+">> \o SelectSeq(Tail(path), LAMBDA c : c /= ".session")

\* an INSERT that checks neither the primary key nor the unique path
InsertRowUnchecked(rows, r, mode) == rows \cup {r}

\* INSERT OR REPLACE (line 361) and INSERT OR IGNORE (lines 406, 417) into a
\* table whose phone is PRIMARY KEY and whose path is UNIQUE (lines 125-126)
InsertRow(rows, r, mode) ==
    IF mode = "REPLACE"
    THEN {x \in rows : x.phone /= r.phone /\ x.path /= r.path} \cup {r}
    ELSE IF \E x \in rows : x.phone = r.phone \/ x.path = r.path
         THEN rows
         ELSE rows \cup {r}

\* lines 392-421 over the files todo: a file whose phone was not among the
\* rows selected at line 389 and is a valid number is probed and inserted,
\* active when the probe (a file of ok) connected and inactive when not
RECURSIVE DiscoverFrom(_, _, _, _)
DiscoverFrom(rows, todo, known, ok) ==
    IF todo = {} THEN rows
    ELSE LET f == CHOOSE x \in todo : TRUE IN
         DiscoverFrom(IF PhoneOf(f) \notin known /\ validate_phone(PhoneOf(f))
                      THEN InsertRow(rows, [phone |-> PhoneOf(f), path |-> f,
                                            status |-> IF f \in ok THEN "active" ELSE "inactive",
                                            notes |-> "NULL"], "IGNORE")
                      ELSE rows,
                      todo \ {f}, known, ok)

\* list_sessions (lines 380-445) with the probes of ok connecting
Discovered(ok) ==
    DiscoverFrom(registry, files, {x.phone : x \in {y \in registry : y.status = "active"}}, ok)

\* create_session (lines 287-378): the number typed is valid and the sign-in
\* succeeds, or nothing is written
RegCreate ==
    /\ \E phone \in PhoneInputs : \E signed \in BOOLEAN :
        IF validate_phone(phone) /\ signed
        THEN /\ files' = files \cup {PathOf(phone)}
             /\ registry' = InsertRow(registry, [phone |-> phone, path |-> PathOf(phone),
                                                 status |-> "active", notes |-> "NULL"],
                                      "REPLACE")
        ELSE UNCHANGED <<files, registry>>
    /\ UNCHANGED <<poolVars, clientVars, gatherVars, menuVars, startupVars, dbVars>>

\* list_sessions (lines 380-445)
RegList ==
    /\ \E ok \in SUBSET files : registry' = Discovered(ok)
    /\ UNCHANGED <<files, poolVars, clientVars, gatherVars, menuVars, startupVars, dbVars>>

\* add_session_note (lines 963-985) for the file chosen
RegNote ==
    /\ \E ok \in SUBSET files : \E f \in files :
        registry' = {IF x.phone = PhoneOf(f) THEN [x EXCEPT !.notes = "note"] ELSE x :
                        x \in Discovered(ok)}
    /\ UNCHANGED <<files, poolVars, clientVars, gatherVars, menuVars, startupVars, dbVars>>

\* bulk_session_check (lines 924-961) with the operator confirming: the
\* sessions whose check did not connect are marked
RegMark ==
    /\ \E ok \in SUBSET files : \E healthy \in SUBSET files :
        registry' = {IF \E f \in files \ healthy : x.phone = PhoneOf(f)
                     THEN [x EXCEPT !.status = "inactive"] ELSE x :
                        x \in Discovered(ok)}
    /\ UNCHANGED <<files, poolVars, clientVars, gatherVars, menuVars, startupVars, dbVars>>

\* delete_session (lines 1005-1028) of the file chosen
RegDelete ==
    /\ \E ok \in SUBSET files : \E f \in files :
        /\ registry' = {x \in Discovered(ok) : x.phone /= PhoneOf(f)}
        /\ files' = files \ {f}
    /\ UNCHANGED <<poolVars, clientVars, gatherVars, menuVars, startupVars, dbVars>>

\* an empty registry; in the folder any of the session files of the three
\* numbers and a file that is no session, put there by hand
RegistryInit ==
    /\ API_POOL = FreshPool
    /\ now = 0
    /\ acq = NoAcq
    /\ files \in SUBSET ({PathOf(phone) : phone \in {x \in PhoneInputs : validate_phone(x)}}
                            \cup {<<"sessions/", "notes", ".session">>})
    /\ registry = {}
    /\ ClientFresh
    /\ tasks = EmptyBag
    /\ MenuIdle
    /\ NoWriters
    /\ StartedWith(DefaultConfig)

RegistryNext == RegCreate \/ RegList \/ RegNote \/ RegMark \/ RegDelete

SpecRegistry == RegistryInit /\ [][RegistryNext]_vars

----------------------------------------------------------------------------
(* Properties *)

RECURSIVE SumSeq(_)
SumSeq(q) == IF q = <<>> THEN 0 ELSE q[1] + SumSeq(Tail(q))

Last(q) == q[Len(q)]

\* every answer recorded in q is one of kinds
AllIn(q, kinds) == \A i \in 1..Len(q) : q[i] \in kinds

ExecuteEnded == ret.fn = "safe_execute" /\ ret.kind /= "running"

\* C1: rate-limit retries are not counted against the retry budget: a call
\* that keeps answering with rate-limit signals is retried after each of them,
\* so safe_execute never ends on a rate-limit signal (it ends on a result or on
\* the final generic failure only).
C1_FloodRetriesNotBudgeted ==
    (ExecuteEnded /\ tr.exec /= <<>>) => Last(tr.exec) /= "flood"

\* C2: get_available_api returns a credential only if its count was below the
\* ceiling before the call or its cooldown had elapsed; in the cooldown case
\* the count is 1 right after the call; no count is ever above the ceiling.
C2_AcquireRespectsCeiling ==
    /\ \A i \in 1..NPool : API_POOL[i].count <= 100
    /\ acq.idx > 0 =>
        LET pre == acq.pre[acq.idx]
            cooled == pre.last_used /= NoTime /\ acq.at - pre.last_used > 3600 IN
        /\ pre.count < 100 \/ cooled
        /\ cooled => API_POOL[acq.idx].count = 1

\* C2 witness: a credential at the ceiling was returned after its cooldown and
\* its count is 1
C2_Witness ==
    /\ acq.idx > 0
    /\ acq.pre[acq.idx].count = 100
    /\ API_POOL[acq.idx].count = 1

ConnectReturnedFalse ==
    /\ pc = "idle"
    /\ ret \in {Returned("connect", "False"), Returned("safe_execute", "None")}

\* C3: when the connection opens and the session is not authorized, connect
\* returns false at once: no further attempt, no sleep after that answer, no
\* registry update, and _connected is not set.
C3_NotAuthorizedReturnsFalse ==
    (tr.conn /= <<>> /\ Last(tr.conn) = "not_authorized") =>
        /\ ConnectReturnedFalse
        /\ Len(tr.connSleeps) = Len(tr.conn) - 1
        /\ tr.dbUpdates = 0
        /\ registry = tr.reg0
        /\ AllIn(tr.conn, {"transient", "not_authorized"}) => ~connected

\* C3 witness: 'not authorized' on the first attempt of a connect call
C3_Witness ==
    /\ tr.conn = <<"not_authorized">>
    /\ ret = Returned("connect", "False")
    /\ tr.connSleeps = <<>>

\* connect has ended and every attempt it made raised
ConnectGaveUp ==
    /\ pc /= "connect"
    /\ tr.conn /= <<>>
    /\ AllIn(tr.conn, {"transient", "db_failed"})

\* C4: when every attempt of connect fails, connect makes exactly MAX_RETRIES
\* attempts, sleeps RETRY_DELAY * 2^k after failed attempt k for
\* k = 0 .. MAX_RETRIES - 2, does not sleep after the last one and returns
\* false; while it runs, the attempt counter stays below MAX_RETRIES, and
\* every connect that has begun ends.
C4_ConnectRetriesThenFalse ==
    /\ [](pc = "connect" => (attempt < MAX_RETRIES /\ Len(tr.conn) = attempt))
    /\ [](ConnectGaveUp =>
            /\ Len(tr.conn) = MAX_RETRIES
            /\ tr.connSleeps = [k \in 1..(MAX_RETRIES - 1) |-> RETRY_DELAY * (2 ^ (k - 1))]
            /\ ConnectReturnedFalse)
    /\ (pc = "connect") ~> (pc /= "connect")

\* C4 witness: connect returned false after MAX_RETRIES transient failures
C4_Witness ==
    /\ ConnectGaveUp
    /\ AllIn(tr.conn, {"transient"})
    /\ ret = Returned("connect", "False")

\* C5: k < MAX_RETRIES consecutive transient failures of a remote call and then
\* a success: safe_execute is still retrying after the k failures, returns the
\* result of the successful call, and its sleeps add up to
\* RETRY_DELAY * (2^0 + ... + 2^(k-1)) = RETRY_DELAY * (2^k - 1).
C5_BackoffTotal ==
    LET n == Len(tr.exec) IN
    /\ (n >= 1 /\ n < MAX_RETRIES /\ AllIn(tr.exec, {"error"})) =>
        /\ pc = "execute"
        /\ attempt = n
        /\ SumSeq(tr.execSleeps) = RETRY_DELAY * ((2 ^ n) - 1)
    /\ (n >= 1 /\ Last(tr.exec) = "ok" /\ AllIn(SubSeq(tr.exec, 1, n - 1), {"error"})) =>
        /\ ret = Returned("safe_execute", "result")
        /\ SumSeq(tr.execSleeps) = RETRY_DELAY * ((2 ^ (n - 1)) - 1)

\* C5 witness: two transient failures, then success, total sleep 5 + 10
C5_Witness ==
    /\ tr.exec = <<"error", "error", "ok">>
    /\ ret = Returned("safe_execute", "result")
    /\ SumSeq(tr.execSleeps) = RETRY_DELAY * 3

\* C6: disconnect always leaves the client Disconnected (_connected false),
\* also when writing the secret file or closing the connection fails.
C6_DisconnectLeavesDisconnected ==
    ret.fn = "disconnect" => ~connected

\* C7: a disconnect that follows a disconnect returns normally, writes no file
\* and leaves the client, the file and the registry as they were.
C7_SecondDisconnectNoop ==
    [][(ret.fn = "disconnect" /\ ret'.fn = "disconnect" /\ calls' = calls + 1) =>
          /\ ret'.kind = "return"
          /\ tr'.fileWrites = 0
          /\ client' = client
          /\ connected' = connected
          /\ me' = me
          /\ connOpen' = connOpen
          /\ files' = files
          /\ registry' = registry]_vars

\* C7 witness: a second disconnect after a first one whose file write failed
C7_Witness ==
    /\ ret.fn = "disconnect"
    /\ tr.prev = "disconnect"
    /\ connected
    /\ files[ThePhone] = ""

\* C8: the remote calls in flight through safe_execute of one client never
\* exceed the configured concurrency bound.
C8_InFlightBounded == InFlight <= CONCURRENT_CONNECTIONS

\* C9: when all MAX_RETRIES attempts of safe_execute fail with an error that
\* is no rate-limit signal, the error is raised to the caller and no sleep
\* follows the final attempt.
C9_FinalFailureReraised ==
    (Len(tr.exec) = MAX_RETRIES /\ AllIn(tr.exec, {"error", "type_error"})) =>
        /\ pc = "idle"
        /\ ret = Raised("safe_execute", "error")
        /\ Len(tr.execSleeps) = MAX_RETRIES - 1

\* C9 witness: five failed remote calls, the last one raised
C9_Witness ==
    /\ tr.exec = [k \in 1..MAX_RETRIES |-> "error"]
    /\ ret = Raised("safe_execute", "error")

\* C10: no failure inside the client or the session store ends the process:
\* whatever a handler meets (connect failing, the pool exhausted, a remote
\* call, a file or a registry access failing), control returns to the menu
\* loop, which is never left through an unhandled exception
C10_MenuLoopNeverCrashes == menu /= "crashed"

\* a credential as get_available_api found it at time t: used to the ceiling
\* and last used no more than 3600 s before
Exhausted(api, t) ==
    /\ api.count >= 100
    /\ ~(api.last_used /= NoTime /\ t - api.last_used > 3600)

\* C11: get_available_api raises exactly when every credential of the pool
\* has reached the ceiling and none is past its cooldown, and a call that
\* raises changes no count and no last-used time.
C11_ExhaustedExactly ==
    acq.idx >= 0 =>
        /\ acq.idx = 0 <=> \A i \in 1..NPool : Exhausted(acq.pre[i], acq.at)
        /\ acq.idx = 0 => API_POOL = acq.pre

\* C11 witness: a call raised with both credentials at the ceiling
C11_Witness ==
    /\ acq.idx = 0
    /\ \A i \in 1..NPool : API_POOL[i].count = 100

\* C12: get_available_api returns the first credential, in the order of the
\* pool, that is below the ceiling or past its cooldown; its count becomes
\* its old count (zero when the cooldown elapsed) plus one, its last-used
\* time the time of the call; every other credential is unchanged.
C12_FirstFit ==
    acq.idx > 0 =>
        LET pre == acq.pre[acq.idx]
            cooled == pre.last_used /= NoTime /\ acq.at - pre.last_used > 3600 IN
        /\ ~Exhausted(pre, acq.at)
        /\ \A j \in 1..(acq.idx - 1) : Exhausted(acq.pre[j], acq.at)
        /\ API_POOL[acq.idx].count = (IF cooled THEN 0 ELSE pre.count) + 1
        /\ API_POOL[acq.idx].last_used = acq.at
        /\ \A j \in 1..NPool : j /= acq.idx => API_POOL[j] = acq.pre[j]

\* C12 witness: the second credential was returned, with an earlier use of
\* its own behind it, while the first was at the ceiling
C12_Witness ==
    /\ acq.idx = 2
    /\ acq.pre[1].count = 100
    /\ acq.pre[2].count > 0

\* C13: the registry is written only after a successful remote action: no
\* handler inserts a row, or updates last_used, session_hash or status of a
\* row, for a phone whose remote authentication did not succeed in that
\* handler; a probe of list_sessions whose connect fails leaves the registry
\* as it was.
C13_RegistryWrittenAfterSuccess == ran.unearned = {}

MaxWait == 3600

\* the sleeps of the retry loop in progress (or of the last call)
Sleeps == tr.connSleeps \o tr.execSleeps

\* C16: under every retry ceiling and base delay, no sleep of connect or of
\* safe_execute exceeds the maximum wait.
C16_BackoffCapped ==
    \A i \in 1..Len(Sleeps) : Sleeps[i] <= MaxWait

\* the rows of table t restricted to the columns cs
RowsIn(t, cs) == [p \in DOMAIN t.rows |-> [c \in cs |-> t.rows[p][c]]]

\* C17: from the registry a start found to any point of its migration no
\* column is dropped, the rows are the same and each holds in every column it
\* had the value it had; when the migration is over every column the table
\* lacked is there (the notes column in particular); a migration that found
\* every column there leaves the registry as it found it.
C17_MigrationAdditive ==
    boot.before.exists =>
        /\ table.exists
        /\ boot.before.columns \subseteq table.columns
        /\ RowsIn(table, boot.before.columns) = boot.before.rows
        /\ boot.stage = "done" => table.columns = AllColumns
        /\ boot.before.columns = AllColumns => table = boot.before

\* C17 witness: a registry with rows and without the notes column has been
\* migrated
C17_Witness ==
    /\ boot.stage = "done"
    /\ boot.before.exists
    /\ "notes" \notin boot.before.columns
    /\ "notes" \in table.columns
    /\ \E p \in DOMAIN boot.before.rows : boot.before.rows[p]["last_used"] = "t1"

\* the commits on the row of phone p by statements of kind k, in order
CommitsOn(p, k) ==
    SelectSeq(sqlite.commits,
              LAMBDA w : WriterSpecs[w].phone = p /\ WriterSpecs[w].stmt = k)

\* C18: no registry writer ever raises, and when all of them are over each
\* has committed once and every row holds, column by column, what the last
\* writer of that column wrote: last_used and session_hash from the last
\* connect committed on the row, status from the UPDATE of line 959.
C18_ConcurrentWritersLoseNothing ==
    /\ \A w \in DOMAIN writers : writers[w].end /= "raised"
    /\ (writers /= <<>> /\ \A w \in DOMAIN writers : writers[w].end = "done") =>
        /\ \A w \in Writers : Len(SelectSeq(sqlite.commits, LAMBDA v : v = w)) = 1
        /\ sqlite.lock = 0
        /\ \A p \in Phones :
            registry[p].exists =>
                /\ CommitsOn(p, "connect") /= <<>> =>
                    /\ registry[p].last_used = writers[Last(CommitsOn(p, "connect"))].stamp
                    /\ registry[p].session_hash =
                           SessionHash(p, writers[Last(CommitsOn(p, "connect"))].stamp)
                /\ registry[p].status =
                       (IF CommitsOn(p, "mark") /= <<>> THEN "inactive" ELSE "active")

\* C18 witness: all four writers are over; on the row of the first phone the
\* connect of the first process computed its time stamp first and committed
\* last, after the connect of the second process
C18_Witness ==
    /\ writers /= <<>>
    /\ \A w \in DOMAIN writers : writers[w].end = "done"
    /\ \A p \in Phones : registry[p].exists
    /\ CommitsOn(PhoneOrder[1], "connect") = <<3, 1>>
    /\ registry[PhoneOrder[1]].last_used = writers[1].stamp
    /\ writers[1].stamp < writers[3].stamp

\* C20: the secret connect loads from the session file is, character for
\* character, the secret disconnect or create_session saved to it.
C20_RoundTrip ==
    pc = "loaded" => session = tr.written

\* C20 witness: a secret of the greatest length, saved by disconnect, has
\* been loaded
C20_Witness ==
    /\ pc = "loaded"
    /\ tr.by = "disconnect"
    /\ Len(tr.written) = MaxSecretLen + 1
    /\ session = files[ThePhone].text

\* C19: whatever has been created, discovered, annotated, marked and
\* deleted, no two rows of the registry have the same phone, no two have the
\* same path, no two session files belong to the same phone number, and the
\* session file of a phone that has a row is the one the row names.
C19_OneRowOnePathOneFile ==
    /\ \A x \in registry : \A y \in registry :
         (x.phone = y.phone \/ x.path = y.path) => x = y
    /\ \A f \in files : \A g \in files : PhoneOf(f) = PhoneOf(g) => f = g
    /\ \A x \in registry : \A f \in files : PhoneOf(f) = x.phone => f = x.path

\* C19 witness: two rows, the one created again after the other had been
\* annotated and marked, each with its session file
C19_Witness ==
    /\ Cardinality(registry) = 2
    /\ \E x \in registry : x.status = "inactive" /\ x.notes = "note"
    /\ \E x \in registry : x.status = "active" /\ x.notes = "NULL"
    /\ \A x \in registry : x.path \in files

\* C29: whenever connect has returned false the client is not connected
\* (_connected is false), also when the authorization succeeded and the
\* registry update after it failed.
C29_FalseMeansDisconnected ==
    ret = Returned("connect", "False") => ~connected

\* C30: a client that is connected (_connected true) has its remote client
\* object (client is not None), also after a disconnect whose file write or
\* remote close failed.
C30_ConnectedHasClient ==
    connected => client /= "None"

\* C23: the client is Authenticated (_connected true) only outside the loop
\* of connect, so never while Connecting or Retrying, and when a connect has
\* ended it is Authenticated only if its last attempt passed the
\* authorization check.
C23_StateMachine ==
    /\ pc = "connect" => ~connected
    /\ (connected /\ pc = "idle" /\ tr.conn /= <<>>) => Last(tr.conn) = "ok"

\* C22: when the session file holds a secret and connect could not load it
\* (its StringSession is empty), connect makes no connection attempt: it is
\* not in its loop and has attempted nothing.
C22_CorruptSecretIsTerminal ==
    (files[ThePhone] = "secret" /\ session = "empty") =>
        (pc /= "connect" /\ tr.conn = <<>>)

\* C21: when backup_sessions has run, every registry row and every session
\* file is as it was before.
C21_BackupChangesNothing ==
    ran.op = "backup_sessions" => ran.changed = {}

\* C28: when bulk_session_check has returned, every registered session whose
\* check did not connect has status inactive.
C28_FailedCheckMarksInactive ==
    (ran.op = "bulk_session_check" /\ ran.end = "returned") =>
        \A p \in ran.failed : registry[p].exists => registry[p].status = "inactive"

\* C25: when no db_connection block is running, no registry connection is
\* open: each block closed the connection it opened, however it ended.
C25_ConnectionsClosed ==
    pc = "idle" => sqlite.handles = 0

\* C24: between the sending of two different requests of a bulk deletion a
\* delay is waited: no request is sent right after another one.
C24_BatchesPaced ==
    (caller \in {"clear_contacts", "delete_all_chats_advanced"} /\ tr.answer = "yes") =>
        \A k \in 1..(Len(tr.log) - 1) :
            (tr.log[k].kind = "send" /\ tr.log[k + 1].kind = "send") =>
                tr.log[k].task = tr.log[k + 1].task

\* C27: a delete-contacts, leave-channel, delete-dialog or reset-authorization
\* request has been sent only if the prompt of the operation was answered yes.
C27_NothingSentUnconfirmed ==
    (\E k \in 1..Len(tr.log) : tr.log[k].kind = "send") => tr.answer = "yes"

\* an operation whose prompt was answered yes has sent a request, and one
\* whose prompt was declined has returned
C27_Witness ==
    /\ caller = "terminate_other_sessions"
    /\ tr.answer = "yes"
    /\ \E k \in 1..Len(tr.log) : tr.log[k].kind = "send"

\* C26: when the process has exited on a signal, a session file that held a
\* full secret before the operation still holds it, and a phone has a session
\* file exactly when it has a registry row.
C26_InterruptLosesNothing ==
    pc = "exited" =>
        /\ tr.before = "secret" => files[tr.phone] = "secret"
        /\ \A p \in Phones : (files[p] /= "absent") <=> registry[p].exists

\* C31: when safe_execute returns without raising, what it returns is the
\* result of a remote call that succeeded, never None.
C31_ReturnsAResult ==
    (ret.fn = "safe_execute" /\ ret.kind = "return") => ret.val = "result"

\* a sign_in of this create_session call succeeded
SignedInHere ==
    \E k \in 1..Len(tr.answers) : tr.answers[k] \in {"signed_in", "password_ok"}

\* C32: create_session has changed the session file or the registry row only
\* if the sign-in of this call succeeded: a dialogue that ended by quit, by
\* used-up code prompts, by a wrong password or by an error wrote nothing.
C32_WritesOnlyAfterSignIn ==
    (files[ThePhone] /= tr.file0 \/ registry[ThePhone] /= tr.row0) => SignedInHere

\* C36: creating a session again for a phone that has a row keeps the notes
\* of that row, and a declined overwrite changes neither file nor row.
C36_RecreateKeepsNotes ==
    (tr.row0.exists /\ registry[ThePhone].exists) =>
        registry[ThePhone].notes = tr.row0.notes

\* C33: when an operation that obtained its client through select_and_login
\* has returned to the menu, the client is Disconnected and its remote
\* connection is closed.
C33_ReturnsDisconnected ==
    pc = "menu" => (~connected /\ ~connOpen)

\* C34: cleanup_sessions removes the session file of no phone that has a
\* registry row, active or inactive.
C34_CleanupKeepsRegistered ==
    ran.op = "cleanup_sessions" => \A p \in ran.removed : ~registry[p].exists

\* C35: every reset-authorization request terminate_other_sessions has sent
\* carries the hash of an authorization listed with current false, never the
\* hash of the authorization the client itself uses.
C35_NeverResetsItself ==
    caller = "terminate_other_sessions" =>
        \A k \in 1..Len(tr.log) :
            tr.log[k].kind = "send" => tasks[tr.log[k].task].ids /= <<tr.current>>

\* reset requests went out for both other sessions of an account whose own
\* authorization is listed between them
C35_Witness ==
    /\ caller = "terminate_other_sessions"
    /\ tr.items = 2 /\ tr.current = 2
    /\ {tasks[tr.log[k].task].ids : k \in {j \in 1..Len(tr.log) : tr.log[j].kind = "send"}}
          = {<<1>>, <<3>>}

\* C37: when a db_connection block has ended with an exception, the registry
\* is as it was when the block was entered.
C37_FailedBlockChangesNothing ==
    (pc = "idle" /\ ret.fn = "db_connection" /\ ret.kind = "raise") =>
        registry = tr.reg0

====
